---------------------------- MODULE Spec2Model ----------------------------
(***************************************************************************)
(* Model of the irrigation simulation core of arvier_irrigazione           *)
(* (src/src/lib/calculations.ts, src/src/config/crops.ts).                 *)
(*                                                                         *)
(* JavaScript numbers are modelled as exact rationals <<n, d>> in lowest   *)
(* terms with d > 0, extended with the non-finite values the language      *)
(* produces on a division by zero: <<1, 0>> is Infinity, <<-1, 0>> is      *)
(* -Infinity and <<0, 0>> is NaN.  Binary floating-point rounding error    *)
(* and the sign of zero are not modelled.                                  *)
(***************************************************************************)
EXTENDS Integers, Sequences, FiniteSets, TLC

\* Bounds of the model: the longest weather series and irrigation list tried.
MaxDays == 3
MaxEvents == 2

---------------------------------------------------------------------------
\* JavaScript number arithmetic on extended rationals.

Abs(x) == IF x < 0 THEN -x ELSE x

Sign(x) == IF x < 0 THEN -1 ELSE IF x > 0 THEN 1 ELSE 0

RECURSIVE GCD(_, _)
GCD(a, b) == IF b = 0 THEN a ELSE GCD(b, a % b)

\* n/d in lowest terms with a positive denominator; d = 0 gives the non-finite values.
Reduce(n, d, g) == IF d > 0 THEN <<n \div g, d \div g>> ELSE <<(-n) \div g, (-d) \div g>>

Norm(n, d) ==
  IF d = 1 THEN <<n, 1>>
  ELSE IF d = 0 THEN <<Sign(n), 0>>
  ELSE Reduce(n, d, GCD(Abs(n), Abs(d)))

R(n) == <<n, 1>>

Frac(n, d) == Norm(n, d)

IsNaN(a) == a[2] = 0 /\ a[1] = 0

IsFinite(a) == a[2] > 0

RNeg(a) == <<-a[1], a[2]>>

AddOver(a, b, g) ==
  Norm(a[1] * (b[2] \div g) + b[1] * (a[2] \div g), (a[2] \div g) * b[2])

RAdd(a, b) ==
  IF a[2] > 0 /\ b[2] > 0
  THEN (IF a[2] = b[2] THEN Norm(a[1] + b[1], a[2])
        ELSE AddOver(a, b, GCD(a[2], b[2])))
  ELSE IF IsNaN(a) \/ IsNaN(b) THEN <<0, 0>>
  ELSE IF a[2] = 0 /\ b[2] = 0 THEN (IF a[1] = b[1] THEN a ELSE <<0, 0>>)
  ELSE IF a[2] = 0 THEN a ELSE b

RSub(a, b) == RAdd(a, RNeg(b))

RMul(a, b) ==
  IF a[2] > 0 /\ b[2] > 0 THEN Norm(a[1] * b[1], a[2] * b[2])
  ELSE IF IsNaN(a) \/ IsNaN(b) THEN <<0, 0>>
  ELSE <<Sign(a[1]) * Sign(b[1]), 0>>

RDiv(a, b) ==
  IF a[2] > 0 /\ b[2] > 0 /\ b[1] # 0 THEN Norm(a[1] * b[2], a[2] * b[1])
  ELSE IF IsNaN(a) \/ IsNaN(b) THEN <<0, 0>>
  ELSE IF b[2] = 0 THEN (IF a[2] = 0 THEN <<0, 0>> ELSE <<0, 1>>)
  ELSE IF b[1] = 0 THEN <<Sign(a[1]), 0>>
  ELSE <<a[1] * Sign(b[1]), 0>>

\* a < b and a <= b as the language evaluates them: false when either is NaN.
LtOver(a, b, g) == a[1] * (b[2] \div g) < b[1] * (a[2] \div g)

RLt(a, b) ==
  IF a[2] > 0 /\ b[2] > 0
  THEN (IF a[2] = b[2] THEN a[1] < b[1] ELSE LtOver(a, b, GCD(a[2], b[2])))
  ELSE IF IsNaN(a) \/ IsNaN(b) THEN FALSE
  ELSE IF a[2] = 0 /\ b[2] = 0 THEN a[1] < b[1]
  ELSE IF a[2] = 0 THEN a[1] < 0
  ELSE b[1] > 0

RLe(a, b) == ~IsNaN(a) /\ ~IsNaN(b) /\ ~RLt(b, a)

\* Math.max and Math.min of two numbers.
MathMax(a, b) ==
  IF IsNaN(a) \/ IsNaN(b) THEN <<0, 0>> ELSE IF RLt(a, b) THEN b ELSE a

MathMin(a, b) ==
  IF IsNaN(a) \/ IsNaN(b) THEN <<0, 0>> ELSE IF RLt(b, a) THEN b ELSE a

\* Math.round: the nearest integer, ties towards +Infinity.
MathRound(a) ==
  IF a[2] = 0 THEN a ELSE R((2 * a[1] + a[2]) \div (2 * a[2]))

\* Math.round(x * 10) / 10 and Math.round(x * 100) / 100.
Round1(a) ==
  IF a[2] = 0 THEN a ELSE Norm((20 * a[1] + a[2]) \div (2 * a[2]), 10)

Round2(a) ==
  IF a[2] = 0 THEN a ELSE Norm((200 * a[1] + a[2]) \div (2 * a[2]), 100)

---------------------------------------------------------------------------
\* Crop configuration (src/src/config/crops.ts).

Threshold(name, gdd) == [name |-> name, gdd |-> R(gdd)]

Apple ==
  [baseTemp |-> Frac(9, 2), kcInitial |-> Frac(40, 100), kcPeak |-> R(1),
   kcEnd |-> Frac(70, 100),
   phaseThresholds |-> <<Threshold("Bloom", 350), Threshold("Expansion", 800),
                         Threshold("Maturiry", 2500)>>]

Vineyard ==
  [baseTemp |-> R(10), kcInitial |-> Frac(30, 100), kcPeak |-> Frac(70, 100),
   kcEnd |-> Frac(45, 100),
   phaseThresholds |-> <<Threshold("Budburst", 200), Threshold("Flowering", 500),
                         Threshold("Harvest", 1300)>>]

Pasture ==
  [baseTemp |-> R(0), kcInitial |-> Frac(50, 100), kcPeak |-> Frac(105, 100),
   kcEnd |-> Frac(8, 10),
   phaseThresholds |-> <<Threshold("Initial", 200), Threshold("Growth", 500),
                         Threshold("Harverst", 800)>>]

---------------------------------------------------------------------------
\* The pure calculators (src/src/lib/calculations.ts).

\* Mutant: the average of the two temperatures is not taken.
calculateDailyGdd_NoAverage(tempMax, tempMin, baseTemp) ==
  MathMax(R(0), RSub(RAdd(tempMax, tempMin), baseTemp))

\* Mutant: the result is not clamped at 0.
calculateDailyGdd_NoClamp(tempMax, tempMin, baseTemp) ==
  RSub(RDiv(RAdd(tempMax, tempMin), R(2)), baseTemp)

\* GDD = max(0, (Tmax + Tmin) / 2 - Tbase)
calculateDailyGdd(tempMax, tempMin, baseTemp) ==
  LET avgTemp == RDiv(RAdd(tempMax, tempMin), R(2))
  IN  MathMax(R(0), RSub(avgTemp, baseTemp))

\* Mutant: a threshold counts as reached only once it is exceeded.
RECURSIVE PhaseScan_Strict(_, _, _, _)
PhaseScan_Strict(cumulativeGdd, phaseThresholds, i, currentPhase) ==
  IF i > Len(phaseThresholds) THEN currentPhase
  ELSE PhaseScan_Strict(cumulativeGdd, phaseThresholds, i + 1,
                        IF RLt(phaseThresholds[i].gdd, cumulativeGdd)
                        THEN phaseThresholds[i].name ELSE currentPhase)

\* The for loop of getCurrentPhase from threshold i on, currentPhase so far.
RECURSIVE PhaseScan(_, _, _, _)
PhaseScan(cumulativeGdd, phaseThresholds, i, currentPhase) ==
  IF i > Len(phaseThresholds) THEN currentPhase
  ELSE PhaseScan(cumulativeGdd, phaseThresholds, i + 1,
                 IF RLe(phaseThresholds[i].gdd, cumulativeGdd)
                 THEN phaseThresholds[i].name ELSE currentPhase)

getCurrentPhase(cumulativeGdd, phaseThresholds) ==
  PhaseScan(cumulativeGdd, phaseThresholds, 1, "Dormant")

\* Mutant: the late-season progress is measured against endGdd alone.
interpolateKc_LateProgress(cumulativeGdd, cropConfig) ==
  LET kcInitial == cropConfig.kcInitial
      kcPeak == cropConfig.kcPeak
      kcEnd == cropConfig.kcEnd
      phaseThresholds == cropConfig.phaseThresholds
  IN  IF Len(phaseThresholds) < 2 THEN kcInitial
      ELSE LET midGdd == phaseThresholds[1].gdd
               lateGdd == phaseThresholds[2].gdd
               endGdd == phaseThresholds[Len(phaseThresholds)].gdd
           IN  IF RLe(cumulativeGdd, R(0)) THEN kcInitial
               ELSE IF RLt(cumulativeGdd, midGdd)
                 THEN LET progress == RDiv(cumulativeGdd, midGdd)
                      IN  RAdd(kcInitial, RMul(progress, RSub(kcPeak, kcInitial)))
               ELSE IF RLt(cumulativeGdd, lateGdd) THEN kcPeak
               ELSE IF RLt(cumulativeGdd, endGdd)
                 THEN LET progress == RDiv(RSub(cumulativeGdd, lateGdd), endGdd)
                      IN  RAdd(kcPeak, RMul(progress, RSub(kcEnd, kcPeak)))
               ELSE kcEnd

\* Mutant: the degenerate case is an empty threshold list only; a single
\* threshold serves as both midGdd and lateGdd.
interpolateKc_NeedsOneThreshold(cumulativeGdd, cropConfig) ==
  LET kcInitial == cropConfig.kcInitial
      kcPeak == cropConfig.kcPeak
      kcEnd == cropConfig.kcEnd
      phaseThresholds == cropConfig.phaseThresholds
  IN  IF Len(phaseThresholds) < 1 THEN kcInitial
      ELSE LET midGdd == phaseThresholds[1].gdd
               lateGdd == phaseThresholds[IF Len(phaseThresholds) < 2 THEN 1 ELSE 2].gdd
               endGdd == phaseThresholds[Len(phaseThresholds)].gdd
           IN  IF RLe(cumulativeGdd, R(0)) THEN kcInitial
               ELSE IF RLt(cumulativeGdd, midGdd)
                 THEN LET progress == RDiv(cumulativeGdd, midGdd)
                      IN  RAdd(kcInitial, RMul(progress, RSub(kcPeak, kcInitial)))
               ELSE IF RLt(cumulativeGdd, lateGdd) THEN kcPeak
               ELSE IF RLt(cumulativeGdd, endGdd)
                 THEN LET progress == RDiv(RSub(cumulativeGdd, lateGdd),
                                           RSub(endGdd, lateGdd))
                      IN  RAdd(kcPeak, RMul(progress, RSub(kcEnd, kcPeak)))
               ELSE kcEnd

\* Mutant: the comparisons that guard the two divisions admit the boundary.
interpolateKc_InclusiveGuards(cumulativeGdd, cropConfig) ==
  LET kcInitial == cropConfig.kcInitial
      kcPeak == cropConfig.kcPeak
      kcEnd == cropConfig.kcEnd
      phaseThresholds == cropConfig.phaseThresholds
  IN  IF Len(phaseThresholds) < 2 THEN kcInitial
      ELSE LET midGdd == phaseThresholds[1].gdd
               lateGdd == phaseThresholds[2].gdd
               endGdd == phaseThresholds[Len(phaseThresholds)].gdd
           IN  IF RLt(cumulativeGdd, R(0)) THEN kcInitial
               ELSE IF RLe(cumulativeGdd, midGdd)
                 THEN LET progress == RDiv(cumulativeGdd, midGdd)
                      IN  RAdd(kcInitial, RMul(progress, RSub(kcPeak, kcInitial)))
               ELSE IF RLt(cumulativeGdd, lateGdd) THEN kcPeak
               ELSE IF RLe(cumulativeGdd, endGdd)
                 THEN LET progress == RDiv(RSub(cumulativeGdd, lateGdd),
                                           RSub(endGdd, lateGdd))
                      IN  RAdd(kcPeak, RMul(progress, RSub(kcEnd, kcPeak)))
               ELSE kcEnd

\* Mutant: the late-season decline is not stopped at endGdd.
interpolateKc_Unclamped(cumulativeGdd, cropConfig) ==
  LET kcInitial == cropConfig.kcInitial
      kcPeak == cropConfig.kcPeak
      kcEnd == cropConfig.kcEnd
      phaseThresholds == cropConfig.phaseThresholds
  IN  IF Len(phaseThresholds) < 2 THEN kcInitial
      ELSE LET midGdd == phaseThresholds[1].gdd
               lateGdd == phaseThresholds[2].gdd
               endGdd == phaseThresholds[Len(phaseThresholds)].gdd
           IN  IF RLe(cumulativeGdd, R(0)) THEN kcInitial
               ELSE IF RLt(cumulativeGdd, midGdd)
                 THEN LET progress == RDiv(cumulativeGdd, midGdd)
                      IN  RAdd(kcInitial, RMul(progress, RSub(kcPeak, kcInitial)))
               ELSE IF RLt(cumulativeGdd, lateGdd) THEN kcPeak
               ELSE IF RLt(lateGdd, endGdd)
                 THEN LET progress == RDiv(RSub(cumulativeGdd, lateGdd),
                                           RSub(endGdd, lateGdd))
                      IN  RAdd(kcPeak, RMul(progress, RSub(kcEnd, kcPeak)))
               ELSE kcEnd

interpolateKc(cumulativeGdd, cropConfig) ==
  LET kcInitial == cropConfig.kcInitial
      kcPeak == cropConfig.kcPeak
      kcEnd == cropConfig.kcEnd
      phaseThresholds == cropConfig.phaseThresholds
  IN  IF Len(phaseThresholds) < 2 THEN kcInitial
      ELSE LET midGdd == phaseThresholds[1].gdd
               lateGdd == phaseThresholds[2].gdd
               endGdd == phaseThresholds[Len(phaseThresholds)].gdd
           IN  IF RLe(cumulativeGdd, R(0)) THEN kcInitial
               ELSE IF RLt(cumulativeGdd, midGdd)
                 THEN LET progress == RDiv(cumulativeGdd, midGdd)
                      IN  RAdd(kcInitial, RMul(progress, RSub(kcPeak, kcInitial)))
               ELSE IF RLt(cumulativeGdd, lateGdd) THEN kcPeak
               ELSE IF RLt(cumulativeGdd, endGdd)
                 THEN LET progress == RDiv(RSub(cumulativeGdd, lateGdd),
                                           RSub(endGdd, lateGdd))
                      IN  RAdd(kcPeak, RMul(progress, RSub(kcEnd, kcPeak)))
               ELSE kcEnd

\* ETc = ET0 x Kc
calculateEtc(et0, kc) == RMul(et0, kc)

---------------------------------------------------------------------------
\* runYearSimulation (src/src/lib/calculations.ts).

VARIABLES
  pc,                    \* "start", "loop", "done": position in runYearSimulation;
                         \* "idle" while only a pure calculator is exercised
  weatherData, cropConfig, irrigationEvents, isPasture,    \* the arguments
  irrigationMap,         \* date -> summed amount
  idx,                   \* number of weather records consumed by the for loop
  cumulativeGdd, cycleGdd, soilWater,
  totalEtc, totalPrecipitation, totalWaterDeficit, totalIrrigation,
  totalNetWaterDeficit, daysWithDeficit, peakPhaseReached,
  daily,                 \* the DailyCalculation records pushed so far
  local,                 \* the loop body's constants of the latest iteration, and
                         \* soilWater and cycleGdd as they were when it began
  summary,               \* the returned SimulationSummary (set at "done")
  call, result,          \* a single call of a pure calculator and what it returned
  other                  \* a second invocation of runYearSimulation in progress

simVars ==
  <<pc, weatherData, cropConfig, irrigationEvents, isPasture, irrigationMap, idx,
    cumulativeGdd, cycleGdd, soilWater, totalEtc, totalPrecipitation,
    totalWaterDeficit, totalIrrigation, totalNetWaterDeficit, daysWithDeficit,
    peakPhaseReached, daily, local, summary>>

vars == <<simVars, call, result, other>>

pastureHarvestGdd == 800

soilWaterMax == 100

\* soilWaterMax * 0.7
InitialSoilWater == RMul(R(soilWaterMax), Frac(7, 10))

\* The empty Map and Map.get / Map.set; a missing key reads as undefined.
EmptyMap == [d \in {} |-> R(0)]

MapHas(m, k) == k \in DOMAIN m

MapSet(m, k, v) == [d \in DOMAIN m \cup {k} |-> IF d = k THEN v ELSE m[d]]

\* irrigationMap.get(date) || 0: undefined, 0 and NaN all read as 0.
GetOrZero(m, k) ==
  IF MapHas(m, k) /\ ~IsNaN(m[k]) /\ m[k] # R(0) THEN m[k] ELSE R(0)

\* Mutant: a later event of a date replaces the amount instead of adding to it.
AddEvent_Overwrite(m, event) == MapSet(m, event.date, event.amount)

\* Mutant: an event with a non-positive amount is skipped.
AddEvent_RejectNonPositive(m, event) ==
  IF RLe(event.amount, R(0)) THEN m
  ELSE MapSet(m, event.date, RAdd(GetOrZero(m, event.date), event.amount))

\* One iteration of the loop that fills irrigationMap.
AddEvent(m, event) ==
  LET existing == GetOrZero(m, event.date)
  IN  MapSet(m, event.date, RAdd(existing, event.amount))

RECURSIVE BuildFrom(_, _, _)
BuildFrom(m, events, i) ==
  IF i > Len(events) THEN m ELSE BuildFrom(AddEvent(m, events[i]), events, i + 1)

\* Mutant: the map is shared by all invocations and is not cleared between them.
BuildIrrigationMap_Shared(events) == BuildFrom(irrigationMap, events, 1)

\* irrigationMap as it is when the loop over weatherData begins.
BuildIrrigationMap(events) == BuildFrom(EmptyMap, events, 1)

\* Mutant: the reset drops the excess GDD instead of carrying it over.
PastureReset_ToZero(cycle, pasture) ==
  IF pasture /\ RLe(R(pastureHarvestGdd), cycle) THEN R(0) ELSE cycle

\* Mutant: the cycle is reset only once it has gone beyond the threshold.
PastureReset_Beyond(cycle, pasture) ==
  IF pasture /\ RLt(R(pastureHarvestGdd), cycle)
  THEN RSub(cycle, R(pastureHarvestGdd)) ELSE cycle

\* Mutant: the cycle is reset for every crop, pasture or not.
PastureReset_AnyCrop(cycle, pasture) ==
  IF RLe(R(pastureHarvestGdd), cycle) THEN RSub(cycle, R(pastureHarvestGdd)) ELSE cycle

\* For Pasture: reset cycle GDD when the harvest threshold is reached.
PastureReset(cycle, pasture) ==
  IF pasture /\ RLe(R(pastureHarvestGdd), cycle)
  THEN RSub(cycle, R(pastureHarvestGdd)) ELSE cycle

\* Mutant: the cap at field capacity is applied after ETc is removed.
SoilWaterBalance_CapLast(water, precipitation, irrigationApplied, etc) ==
  LET added == RAdd(water, RAdd(precipitation, irrigationApplied))
      removed == RSub(added, etc)
  IN  IF RLt(removed, R(0))
      THEN [soilWater |-> R(0), netWaterDeficit |-> RNeg(removed)]
      ELSE [soilWater |-> MathMin(removed, R(soilWaterMax)), netWaterDeficit |-> R(0)]

\* Mutant: no cap at field capacity.
SoilWaterBalance_NoCap(water, precipitation, irrigationApplied, etc) ==
  LET added == RAdd(water, RAdd(precipitation, irrigationApplied))
      removed == RSub(added, etc)
  IN  IF RLt(removed, R(0))
      THEN [soilWater |-> R(0), netWaterDeficit |-> RNeg(removed)]
      ELSE [soilWater |-> removed, netWaterDeficit |-> R(0)]

\* Mutant: ETc is removed before the day's supply is added and capped.
SoilWaterBalance_RemoveFirst(water, precipitation, irrigationApplied, etc) ==
  LET removed == RSub(water, etc)
      floored == MathMax(removed, R(0))
      added == RAdd(floored, RAdd(precipitation, irrigationApplied))
  IN  [soilWater |-> MathMin(added, R(soilWaterMax)),
       netWaterDeficit |-> MathMax(RNeg(removed), R(0))]

\* Mutant: the irrigation is taken out of the soil instead of added to it.
SoilWaterBalance_IrrigationSubtracted(water, precipitation, irrigationApplied, etc) ==
  LET added == RAdd(water, RSub(precipitation, irrigationApplied))
      capped == MathMin(added, R(soilWaterMax))
      removed == RSub(capped, etc)
  IN  IF RLt(removed, R(0))
      THEN [soilWater |-> R(0), netWaterDeficit |-> RNeg(removed)]
      ELSE [soilWater |-> removed, netWaterDeficit |-> R(0)]

\* Mutant: precipitation does not reach the soil; only irrigation is added.
SoilWaterBalance_IgnoresRain(water, precipitation, irrigationApplied, etc) ==
  LET added == RAdd(water, irrigationApplied)
      capped == MathMin(added, R(soilWaterMax))
      removed == RSub(capped, etc)
  IN  IF RLt(removed, R(0))
      THEN [soilWater |-> R(0), netWaterDeficit |-> RNeg(removed)]
      ELSE [soilWater |-> removed, netWaterDeficit |-> R(0)]

\* The soil water balance update of one day: add, cap, remove ETc, floor at 0.
SoilWaterBalance(water, precipitation, irrigationApplied, etc) ==
  LET added == RAdd(water, RAdd(precipitation, irrigationApplied))
      capped == MathMin(added, R(soilWaterMax))
      removed == RSub(capped, etc)
  IN  IF RLt(removed, R(0))
      THEN [soilWater |-> R(0), netWaterDeficit |-> RNeg(removed)]
      ELSE [soilWater |-> removed, netWaterDeficit |-> R(0)]

\* Mutant: et0 and precipitation are rounded like the computed fields.
DailyRecord_RoundedInputs(day, l, cumulative, cycle, water) ==
  [date |-> day.date,
   gddDaily |-> Round1(l.gddDaily),
   gddCumulative |-> Round1(cumulative),
   gddCycle |-> Round1(cycle),
   currentPhase |-> l.currentPhase,
   kc |-> Round2(l.kc),
   et0 |-> MathRound(day.et0),
   etc |-> Round1(l.etc),
   precipitation |-> MathRound(day.precipitation),
   waterDeficit |-> Round1(l.waterDeficit),
   irrigationApplied |-> Round1(l.irrigationApplied),
   soilWater |-> Round1(water),
   netWaterDeficit |-> Round1(l.netWaterDeficit)]

\* The DailyCalculation record pushed for a day.
DailyRecord(day, l, cumulative, cycle, water) ==
  [date |-> day.date,
   gddDaily |-> Round1(l.gddDaily),
   gddCumulative |-> Round1(cumulative),
   gddCycle |-> Round1(cycle),
   currentPhase |-> l.currentPhase,
   kc |-> Round2(l.kc),
   et0 |-> day.et0,
   etc |-> Round1(l.etc),
   precipitation |-> day.precipitation,
   waterDeficit |-> Round1(l.waterDeficit),
   irrigationApplied |-> Round1(l.irrigationApplied),
   soilWater |-> Round1(water),
   netWaterDeficit |-> Round1(l.netWaterDeficit)]

\* The accumulators of a run as one record.
InitAcc ==
  [cumulativeGdd |-> R(0), cycleGdd |-> R(0), soilWater |-> InitialSoilWater,
   totalEtc |-> R(0), totalPrecipitation |-> R(0), totalWaterDeficit |-> R(0),
   totalIrrigation |-> R(0), totalNetWaterDeficit |-> R(0), daysWithDeficit |-> 0,
   peakPhaseReached |-> "Dormant", daily |-> <<>>,
   local |-> [gddDaily |-> R(0), gddForPhaseAndKc |-> R(0),
              currentPhase |-> "Dormant", kc |-> R(0), etc |-> R(0),
              waterDeficit |-> R(0), irrigationApplied |-> R(0),
              netWaterDeficit |-> R(0), soilWaterBefore |-> InitialSoilWater,
              cycleGddBefore |-> R(0)]]

\* Mutant: the theoretical deficit also counts the day's irrigation as supply.
DayStep_DeficitAfterIrrigation(a, day, config, pasture, map) ==
  LET gddDaily == calculateDailyGdd(day.tempMax, day.tempMin, config.baseTemp)
      cumulative == RAdd(a.cumulativeGdd, gddDaily)
      cycle == PastureReset(RAdd(a.cycleGdd, gddDaily), pasture)
      gddForPhaseAndKc == IF pasture THEN cycle ELSE cumulative
      currentPhase == getCurrentPhase(gddForPhaseAndKc, config.phaseThresholds)
      kc == interpolateKc(gddForPhaseAndKc, config)
      etc == calculateEtc(day.et0, kc)
      irrigationApplied == GetOrZero(map, day.date)
      waterDeficit ==
        MathMax(R(0), RSub(etc, RAdd(day.precipitation, irrigationApplied)))
      bal == SoilWaterBalance(a.soilWater, day.precipitation, irrigationApplied, etc)
      l == [gddDaily |-> gddDaily, gddForPhaseAndKc |-> gddForPhaseAndKc,
            currentPhase |-> currentPhase, kc |-> kc, etc |-> etc,
            waterDeficit |-> waterDeficit, irrigationApplied |-> irrigationApplied,
            netWaterDeficit |-> bal.netWaterDeficit,
            soilWaterBefore |-> a.soilWater, cycleGddBefore |-> a.cycleGdd]
  IN  [cumulativeGdd |-> cumulative,
       cycleGdd |-> cycle,
       soilWater |-> bal.soilWater,
       totalEtc |-> RAdd(a.totalEtc, etc),
       totalPrecipitation |-> RAdd(a.totalPrecipitation, day.precipitation),
       totalWaterDeficit |-> RAdd(a.totalWaterDeficit, waterDeficit),
       totalIrrigation |-> RAdd(a.totalIrrigation, irrigationApplied),
       totalNetWaterDeficit |-> RAdd(a.totalNetWaterDeficit, bal.netWaterDeficit),
       daysWithDeficit |-> IF RLt(R(0), bal.netWaterDeficit)
                           THEN a.daysWithDeficit + 1 ELSE a.daysWithDeficit,
       peakPhaseReached |-> currentPhase,
       daily |-> Append(a.daily, DailyRecord(day, l, cumulative, cycle, bal.soilWater)),
       local |-> l]

\* Mutant: in pasture mode the phase and Kc are looked up before the reset.
DayStep_LookupBeforeReset(a, day, config, pasture, map) ==
  LET gddDaily == calculateDailyGdd(day.tempMax, day.tempMin, config.baseTemp)
      cumulative == RAdd(a.cumulativeGdd, gddDaily)
      cycle == PastureReset(RAdd(a.cycleGdd, gddDaily), pasture)
      gddForPhaseAndKc == IF pasture THEN RAdd(a.cycleGdd, gddDaily) ELSE cumulative
      currentPhase == getCurrentPhase(gddForPhaseAndKc, config.phaseThresholds)
      kc == interpolateKc(gddForPhaseAndKc, config)
      etc == calculateEtc(day.et0, kc)
      waterDeficit == MathMax(R(0), RSub(etc, day.precipitation))
      irrigationApplied == GetOrZero(map, day.date)
      bal == SoilWaterBalance(a.soilWater, day.precipitation, irrigationApplied, etc)
      l == [gddDaily |-> gddDaily, gddForPhaseAndKc |-> gddForPhaseAndKc,
            currentPhase |-> currentPhase, kc |-> kc, etc |-> etc,
            waterDeficit |-> waterDeficit, irrigationApplied |-> irrigationApplied,
            netWaterDeficit |-> bal.netWaterDeficit,
            soilWaterBefore |-> a.soilWater, cycleGddBefore |-> a.cycleGdd]
  IN  [cumulativeGdd |-> cumulative,
       cycleGdd |-> cycle,
       soilWater |-> bal.soilWater,
       totalEtc |-> RAdd(a.totalEtc, etc),
       totalPrecipitation |-> RAdd(a.totalPrecipitation, day.precipitation),
       totalWaterDeficit |-> RAdd(a.totalWaterDeficit, waterDeficit),
       totalIrrigation |-> RAdd(a.totalIrrigation, irrigationApplied),
       totalNetWaterDeficit |-> RAdd(a.totalNetWaterDeficit, bal.netWaterDeficit),
       daysWithDeficit |-> IF RLt(R(0), bal.netWaterDeficit)
                           THEN a.daysWithDeficit + 1 ELSE a.daysWithDeficit,
       peakPhaseReached |-> currentPhase,
       daily |-> Append(a.daily, DailyRecord(day, l, cumulative, cycle, bal.soilWater)),
       local |-> l]

\* Mutant: a day counts as a deficit day when its theoretical deficit is > 0.
DayStep_CountsTheoretical(a, day, config, pasture, map) ==
  LET gddDaily == calculateDailyGdd(day.tempMax, day.tempMin, config.baseTemp)
      cumulative == RAdd(a.cumulativeGdd, gddDaily)
      cycle == PastureReset(RAdd(a.cycleGdd, gddDaily), pasture)
      gddForPhaseAndKc == IF pasture THEN cycle ELSE cumulative
      currentPhase == getCurrentPhase(gddForPhaseAndKc, config.phaseThresholds)
      kc == interpolateKc(gddForPhaseAndKc, config)
      etc == calculateEtc(day.et0, kc)
      waterDeficit == MathMax(R(0), RSub(etc, day.precipitation))
      irrigationApplied == GetOrZero(map, day.date)
      bal == SoilWaterBalance(a.soilWater, day.precipitation, irrigationApplied, etc)
      l == [gddDaily |-> gddDaily, gddForPhaseAndKc |-> gddForPhaseAndKc,
            currentPhase |-> currentPhase, kc |-> kc, etc |-> etc,
            waterDeficit |-> waterDeficit, irrigationApplied |-> irrigationApplied,
            netWaterDeficit |-> bal.netWaterDeficit,
            soilWaterBefore |-> a.soilWater, cycleGddBefore |-> a.cycleGdd]
  IN  [cumulativeGdd |-> cumulative,
       cycleGdd |-> cycle,
       soilWater |-> bal.soilWater,
       totalEtc |-> RAdd(a.totalEtc, etc),
       totalPrecipitation |-> RAdd(a.totalPrecipitation, day.precipitation),
       totalWaterDeficit |-> RAdd(a.totalWaterDeficit, waterDeficit),
       totalIrrigation |-> RAdd(a.totalIrrigation, irrigationApplied),
       totalNetWaterDeficit |-> RAdd(a.totalNetWaterDeficit, bal.netWaterDeficit),
       daysWithDeficit |-> IF RLt(R(0), waterDeficit)
                           THEN a.daysWithDeficit + 1 ELSE a.daysWithDeficit,
       peakPhaseReached |-> currentPhase,
       daily |-> Append(a.daily, DailyRecord(day, l, cumulative, cycle, bal.soilWater)),
       local |-> l]

\* Mutant: the pasture flag is ignored; every crop cycles and is looked up at
\* cycleGdd.
DayStep_AlwaysCycles(a, day, config, pasture, map) ==
  LET gddDaily == calculateDailyGdd(day.tempMax, day.tempMin, config.baseTemp)
      cumulative == RAdd(a.cumulativeGdd, gddDaily)
      cycle == PastureReset(RAdd(a.cycleGdd, gddDaily), TRUE)
      gddForPhaseAndKc == cycle
      currentPhase == getCurrentPhase(gddForPhaseAndKc, config.phaseThresholds)
      kc == interpolateKc(gddForPhaseAndKc, config)
      etc == calculateEtc(day.et0, kc)
      waterDeficit == MathMax(R(0), RSub(etc, day.precipitation))
      irrigationApplied == GetOrZero(map, day.date)
      bal == SoilWaterBalance(a.soilWater, day.precipitation, irrigationApplied, etc)
      l == [gddDaily |-> gddDaily, gddForPhaseAndKc |-> gddForPhaseAndKc,
            currentPhase |-> currentPhase, kc |-> kc, etc |-> etc,
            waterDeficit |-> waterDeficit, irrigationApplied |-> irrigationApplied,
            netWaterDeficit |-> bal.netWaterDeficit,
            soilWaterBefore |-> a.soilWater, cycleGddBefore |-> a.cycleGdd]
  IN  [cumulativeGdd |-> cumulative,
       cycleGdd |-> cycle,
       soilWater |-> bal.soilWater,
       totalEtc |-> RAdd(a.totalEtc, etc),
       totalPrecipitation |-> RAdd(a.totalPrecipitation, day.precipitation),
       totalWaterDeficit |-> RAdd(a.totalWaterDeficit, waterDeficit),
       totalIrrigation |-> RAdd(a.totalIrrigation, irrigationApplied),
       totalNetWaterDeficit |-> RAdd(a.totalNetWaterDeficit, bal.netWaterDeficit),
       daysWithDeficit |-> IF RLt(R(0), bal.netWaterDeficit)
                           THEN a.daysWithDeficit + 1 ELSE a.daysWithDeficit,
       peakPhaseReached |-> currentPhase,
       daily |-> Append(a.daily, DailyRecord(day, l, cumulative, cycle, bal.soilWater)),
       local |-> l]

\* The body of the for loop over weatherData, applied to the accumulators a.
DayStep(a, day, config, pasture, map) ==
  LET gddDaily == calculateDailyGdd(day.tempMax, day.tempMin, config.baseTemp)
      cumulative == RAdd(a.cumulativeGdd, gddDaily)
      cycle == PastureReset(RAdd(a.cycleGdd, gddDaily), pasture)
      gddForPhaseAndKc == IF pasture THEN cycle ELSE cumulative
      currentPhase == getCurrentPhase(gddForPhaseAndKc, config.phaseThresholds)
      kc == interpolateKc(gddForPhaseAndKc, config)
      etc == calculateEtc(day.et0, kc)
      waterDeficit == MathMax(R(0), RSub(etc, day.precipitation))
      irrigationApplied == GetOrZero(map, day.date)
      bal == SoilWaterBalance(a.soilWater, day.precipitation, irrigationApplied, etc)
      l == [gddDaily |-> gddDaily, gddForPhaseAndKc |-> gddForPhaseAndKc,
            currentPhase |-> currentPhase, kc |-> kc, etc |-> etc,
            waterDeficit |-> waterDeficit, irrigationApplied |-> irrigationApplied,
            netWaterDeficit |-> bal.netWaterDeficit,
            soilWaterBefore |-> a.soilWater, cycleGddBefore |-> a.cycleGdd]
  IN  [cumulativeGdd |-> cumulative,
       cycleGdd |-> cycle,
       soilWater |-> bal.soilWater,
       totalEtc |-> RAdd(a.totalEtc, etc),
       totalPrecipitation |-> RAdd(a.totalPrecipitation, day.precipitation),
       totalWaterDeficit |-> RAdd(a.totalWaterDeficit, waterDeficit),
       totalIrrigation |-> RAdd(a.totalIrrigation, irrigationApplied),
       totalNetWaterDeficit |-> RAdd(a.totalNetWaterDeficit, bal.netWaterDeficit),
       daysWithDeficit |-> IF RLt(R(0), bal.netWaterDeficit)
                           THEN a.daysWithDeficit + 1 ELSE a.daysWithDeficit,
       peakPhaseReached |-> currentPhase,
       daily |-> Append(a.daily, DailyRecord(day, l, cumulative, cycle, bal.soilWater)),
       local |-> l]

\* The position of a phase in the threshold list, 0 for "Dormant".
PhaseRank(thresholds, name) ==
  IF \E i \in 1..Len(thresholds) : thresholds[i].name = name
  THEN CHOOSE i \in 1..Len(thresholds) : thresholds[i].name = name
  ELSE 0

\* The highest phase any of the records reports.
HighestPhase(records, thresholds) ==
  IF records = <<>> THEN "Dormant"
  ELSE records[CHOOSE i \in 1..Len(records) :
                 \A j \in 1..Len(records) :
                   PhaseRank(thresholds, records[j].currentPhase)
                     <= PhaseRank(thresholds, records[i].currentPhase)].currentPhase

\* Mutant: peakPhaseReached is the highest phase of the run.
MakeSummary_HighestPhase(a) ==
  [totalGdd |-> MathRound(a.cumulativeGdd),
   totalEtc |-> MathRound(a.totalEtc),
   totalPrecipitation |-> MathRound(a.totalPrecipitation),
   totalWaterDeficit |-> MathRound(a.totalWaterDeficit),
   totalIrrigation |-> MathRound(a.totalIrrigation),
   netWaterDeficit |-> MathRound(a.totalNetWaterDeficit),
   peakPhaseReached |-> HighestPhase(a.daily, cropConfig.phaseThresholds),
   daysWithDeficit |-> a.daysWithDeficit]

\* The sum of the amounts the ledger m holds for the dates in keys.
RECURSIVE SumLedger(_, _)
SumLedger(m, keys) ==
  IF keys = {} THEN R(0)
  ELSE LET k == CHOOSE d \in keys : TRUE
       IN  RAdd(m[k], SumLedger(m, keys \ {k}))

\* Mutant: totalIrrigation is read off the ledger, applied or not.
MakeSummary_LedgerTotal(a) ==
  [totalGdd |-> MathRound(a.cumulativeGdd),
   totalEtc |-> MathRound(a.totalEtc),
   totalPrecipitation |-> MathRound(a.totalPrecipitation),
   totalWaterDeficit |-> MathRound(a.totalWaterDeficit),
   totalIrrigation |-> MathRound(SumLedger(irrigationMap, DOMAIN irrigationMap)),
   netWaterDeficit |-> MathRound(a.totalNetWaterDeficit),
   peakPhaseReached |-> a.peakPhaseReached,
   daysWithDeficit |-> a.daysWithDeficit]

\* The SimulationSummary built after the loop.
MakeSummary(a) ==
  [totalGdd |-> MathRound(a.cumulativeGdd),
   totalEtc |-> MathRound(a.totalEtc),
   totalPrecipitation |-> MathRound(a.totalPrecipitation),
   totalWaterDeficit |-> MathRound(a.totalWaterDeficit),
   totalIrrigation |-> MathRound(a.totalIrrigation),
   netWaterDeficit |-> MathRound(a.totalNetWaterDeficit),
   peakPhaseReached |-> a.peakPhaseReached,
   daysWithDeficit |-> a.daysWithDeficit]

NoSummary == MakeSummary(InitAcc)

\* The whole function on given arguments: what it returns.
RECURSIVE RunLoop(_, _, _, _, _, _)
RunLoop(a, weather, i, config, pasture, map) ==
  IF i > Len(weather) THEN a
  ELSE RunLoop(DayStep(a, weather[i], config, pasture, map), weather, i + 1,
               config, pasture, map)

runYearSimulation(weather, config, events, pasture) ==
  LET a == RunLoop(InitAcc, weather, 1, config, pasture, BuildIrrigationMap(events))
  IN  [daily |-> a.daily, summary |-> MakeSummary(a)]

---------------------------------------------------------------------------
\* The arguments tried.

Dates ==
  <<"2024-06-01", "2024-06-02", "2024-06-03", "2024-06-04", "2024-06-05",
    "2024-06-06">>

Weather(tempMax, tempMin, precipitation, et0) ==
  [tempMax |-> tempMax, tempMin |-> tempMin, precipitation |-> precipitation,
   et0 |-> et0]

\* Mild days, a cold wet day, and a day hot enough to end a pasture cycle.
DayTypes ==
  { Weather(R(15), R(5), R(0), R(3)),
    Weather(R(18), R(8), R(0), R(4)),
    Weather(R(20), R(10), R(10), R(5)),
    Weather(R(0), R(0), R(50), Frac(25, 2)),
    Weather(R(800), R(780), R(0), R(80)) }

WithDates(types) ==
  [i \in 1..Len(types) |->
     [date |-> Dates[i], tempMax |-> types[i].tempMax, tempMin |-> types[i].tempMin,
      precipitation |-> types[i].precipitation, et0 |-> types[i].et0]]

WeatherSeries ==
  UNION { { WithDates(t) : t \in [1..n -> DayTypes] } : n \in 0..MaxDays }

Event(date, amount) == [date |-> date, amount |-> amount]

\* An irrigation on the first date and a negative entry on the second (a date
\* no record carries when the series is shorter than two days).
EventTypes == { Event(Dates[1], R(20)), Event(Dates[2], R(-20)) }

EventLists == UNION { [1..n -> EventTypes] : n \in 0..MaxEvents }

CropConfigs == {Apple, Pasture}

\* Pasture cycling is switched on for the Pasture crop and off for the others.
PastureFlags(config) == {config = Pasture}

---------------------------------------------------------------------------
\* The state machine of one run.

Acc ==
  [cumulativeGdd |-> cumulativeGdd, cycleGdd |-> cycleGdd, soilWater |-> soilWater,
   totalEtc |-> totalEtc, totalPrecipitation |-> totalPrecipitation,
   totalWaterDeficit |-> totalWaterDeficit, totalIrrigation |-> totalIrrigation,
   totalNetWaterDeficit |-> totalNetWaterDeficit,
   daysWithDeficit |-> daysWithDeficit, peakPhaseReached |-> peakPhaseReached,
   daily |-> daily, local |-> local]

NoCall == [fn |-> "none"]

NoResult == [returned |-> FALSE, num |-> R(0), str |-> ""]

\* No second invocation.
NoRun == [pc |-> "none"]

AccInit ==
  /\ cumulativeGdd = InitAcc.cumulativeGdd
  /\ cycleGdd = InitAcc.cycleGdd
  /\ soilWater = InitAcc.soilWater
  /\ totalEtc = InitAcc.totalEtc
  /\ totalPrecipitation = InitAcc.totalPrecipitation
  /\ totalWaterDeficit = InitAcc.totalWaterDeficit
  /\ totalIrrigation = InitAcc.totalIrrigation
  /\ totalNetWaterDeficit = InitAcc.totalNetWaterDeficit
  /\ daysWithDeficit = InitAcc.daysWithDeficit
  /\ peakPhaseReached = InitAcc.peakPhaseReached
  /\ daily = InitAcc.daily
  /\ local = InitAcc.local
  /\ irrigationMap = EmptyMap
  /\ idx = 0
  /\ summary = NoSummary

Init ==
  /\ pc = "start"
  /\ weatherData \in WeatherSeries
  /\ cropConfig \in CropConfigs
  /\ irrigationEvents \in EventLists
  /\ isPasture \in PastureFlags(cropConfig)
  /\ AccInit
  /\ call = NoCall
  /\ result = NoResult
  /\ other = NoRun

\* The loop over irrigationEvents that fills irrigationMap.
BuildLedger ==
  /\ pc = "start"
  /\ irrigationMap' = BuildIrrigationMap(irrigationEvents)
  /\ pc' = "loop"
  /\ UNCHANGED <<weatherData, cropConfig, irrigationEvents, isPasture, idx,
                 cumulativeGdd, cycleGdd, soilWater, totalEtc, totalPrecipitation,
                 totalWaterDeficit, totalIrrigation, totalNetWaterDeficit,
                 daysWithDeficit, peakPhaseReached, daily, local, summary,
                 call, result, other>>

\* One iteration of the loop over weatherData.
ProcessDay ==
  /\ pc = "loop"
  /\ idx < Len(weatherData)
  /\ \E a \in {DayStep(Acc, weatherData[idx + 1], cropConfig, isPasture, irrigationMap)} :
         /\ cumulativeGdd' = a.cumulativeGdd
         /\ cycleGdd' = a.cycleGdd
         /\ soilWater' = a.soilWater
         /\ totalEtc' = a.totalEtc
         /\ totalPrecipitation' = a.totalPrecipitation
         /\ totalWaterDeficit' = a.totalWaterDeficit
         /\ totalIrrigation' = a.totalIrrigation
         /\ totalNetWaterDeficit' = a.totalNetWaterDeficit
         /\ daysWithDeficit' = a.daysWithDeficit
         /\ peakPhaseReached' = a.peakPhaseReached
         /\ daily' = a.daily
         /\ local' = a.local
  /\ idx' = idx + 1
  /\ UNCHANGED <<pc, weatherData, cropConfig, irrigationEvents, isPasture,
                 irrigationMap, summary, call, result, other>>

\* The loop is exhausted: build the summary and return.
Finish ==
  /\ pc = "loop"
  /\ idx = Len(weatherData)
  /\ summary' = MakeSummary(Acc)
  /\ pc' = "done"
  /\ UNCHANGED <<weatherData, cropConfig, irrigationEvents, isPasture,
                 irrigationMap, idx, cumulativeGdd, cycleGdd, soilWater, totalEtc,
                 totalPrecipitation, totalWaterDeficit, totalIrrigation,
                 totalNetWaterDeficit, daysWithDeficit, peakPhaseReached, daily,
                 local, call, result, other>>

Next == BuildLedger \/ ProcessDay \/ Finish

Spec == Init /\ [][Next]_vars

---------------------------------------------------------------------------
\* Two invocations of runYearSimulation in progress at once: the one above
\* and a second one held in other, whose steps interleave with it freely.

\* The state of an invocation just entered with the given arguments.
NewRun(weather, config, events, pasture) ==
  [pc |-> "start", weatherData |-> weather, cropConfig |-> config,
   irrigationEvents |-> events, isPasture |-> pasture,
   irrigationMap |-> EmptyMap, idx |-> 0, acc |-> InitAcc, summary |-> NoSummary]

\* A mild day and a day hot enough to end a pasture cycle.
RunDayTypes ==
  { Weather(R(15), R(5), R(0), R(3)), Weather(R(800), R(780), R(0), R(80)) }

RunSeries ==
  UNION { { WithDates(t) : t \in [1..n -> RunDayTypes] } : n \in 0..MaxDays }

\* Invocations on other crops, series and event lists.
OtherRuns ==
  { NewRun(WithDates(<<Weather(R(800), R(780), R(0), R(80))>>), Pasture,
           <<Event(Dates[1], R(20))>>, TRUE),
    NewRun(WithDates(<<Weather(R(15), R(5), R(0), R(3)), Weather(R(15), R(5), R(0), R(3))>>),
           Apple, <<>>, FALSE) }

InitRuns ==
  /\ pc = "start"
  /\ weatherData \in RunSeries
  /\ cropConfig \in CropConfigs
  /\ irrigationEvents \in EventLists
  /\ isPasture \in PastureFlags(cropConfig)
  /\ AccInit
  /\ call = NoCall
  /\ result = NoResult
  /\ other \in {NewRun(weatherData, cropConfig, irrigationEvents, isPasture)} \cup OtherRuns

\* The second invocation fills its irrigationMap.
OtherBuildLedger ==
  /\ other.pc = "start"
  /\ other' = [other EXCEPT !.irrigationMap = BuildIrrigationMap(other.irrigationEvents),
                            !.pc = "loop"]
  /\ UNCHANGED <<simVars, call, result>>

\* One iteration of the second invocation's loop over weatherData.
OtherProcessDay ==
  /\ other.pc = "loop"
  /\ other.idx < Len(other.weatherData)
  /\ other' = [other EXCEPT !.acc = DayStep(other.acc, other.weatherData[other.idx + 1],
                                            other.cropConfig, other.isPasture,
                                            other.irrigationMap),
                            !.idx = other.idx + 1]
  /\ UNCHANGED <<simVars, call, result>>

\* The second invocation builds its summary and returns.
OtherFinish ==
  /\ other.pc = "loop"
  /\ other.idx = Len(other.weatherData)
  /\ other' = [other EXCEPT !.summary = MakeSummary(other.acc), !.pc = "done"]
  /\ UNCHANGED <<simVars, call, result>>

NextRuns == Next \/ OtherBuildLedger \/ OtherProcessDay \/ OtherFinish

SpecRuns == InitRuns /\ [][NextRuns]_vars

---------------------------------------------------------------------------
\* One run on irrigation lists that hold malformed entries: negative and zero
\* amounts, on dates that also carry a regular irrigation.

LedgerEventTypes ==
  { Event(Dates[1], R(20)), Event(Dates[1], R(-20)), Event(Dates[1], R(0)),
    Event(Dates[2], R(-5)) }

LedgerEventLists == UNION { [1..n -> LedgerEventTypes] : n \in 0..MaxEvents }

InitLedger ==
  /\ pc = "start"
  /\ weatherData \in RunSeries
  /\ cropConfig \in CropConfigs
  /\ irrigationEvents \in LedgerEventLists
  /\ isPasture \in PastureFlags(cropConfig)
  /\ AccInit
  /\ call = NoCall
  /\ result = NoResult
  /\ other = NoRun

SpecLedger == InitLedger /\ [][Next]_vars

---------------------------------------------------------------------------
\* One run of the Pasture crop in pasture mode, on days that walk cycleGdd
\* along the Kc curve and up to the harvest threshold.

\* Daily GDD of 10, 1200/11 (where the development ramp passes kcEnd), 790,
\* 799 and 1600 (two cycles' worth in one day) at baseTemp 0.
PastureDayTypes ==
  { Weather(R(15), R(5), R(0), R(3)),
    Weather(Frac(2400, 11), R(0), R(0), R(4)),
    Weather(R(800), R(780), R(0), R(80)),
    Weather(R(800), R(798), R(10), R(5)),
    Weather(R(1600), R(1600), R(0), R(5)) }

PastureSeries ==
  UNION { { WithDates(t) : t \in [1..n -> PastureDayTypes] } : n \in 0..MaxDays }

InitPasture ==
  /\ pc = "start"
  /\ weatherData \in PastureSeries
  /\ cropConfig = Pasture
  /\ irrigationEvents \in EventLists
  /\ isPasture = TRUE
  /\ AccInit
  /\ call = NoCall
  /\ result = NoResult
  /\ other = NoRun

SpecPasture == InitPasture /\ [][Next]_vars

---------------------------------------------------------------------------
\* Two runs on the same weather, crop and pasture flag, the second with one
\* more irrigation event than the first.

\* The extra event: an irrigation of the first or of the second day.
ExtraEvents == { Event(Dates[1], R(20)), Event(Dates[2], R(30)) }

InitIrrigate ==
  /\ pc = "start"
  /\ weatherData \in RunSeries
  /\ cropConfig \in CropConfigs
  /\ irrigationEvents \in EventLists
  /\ isPasture \in PastureFlags(cropConfig)
  /\ AccInit
  /\ call = NoCall
  /\ result = NoResult
  /\ other \in { NewRun(weatherData, cropConfig, Append(irrigationEvents, extra), isPasture) :
                 extra \in ExtraEvents }

SpecIrrigate == InitIrrigate /\ [][NextRuns]_vars

---------------------------------------------------------------------------
\* One run on weather that moves the soil water both ways: rain beyond field
\* capacity and days hot enough to empty the soil.

\* A mild dry day, a day of heavy rain, a hot dry day, and a hot day with more
\* rain than the soil can hold and more demand than that.
WaterDayTypes ==
  { Weather(R(15), R(5), R(0), R(3)), Weather(R(0), R(0), R(50), Frac(25, 2)),
    Weather(R(800), R(780), R(0), R(80)), Weather(R(800), R(780), R(150), R(200)) }

WaterSeries ==
  UNION { { WithDates(t) : t \in [1..n -> WaterDayTypes] } : n \in 0..MaxDays }

InitWater ==
  /\ pc = "start"
  /\ weatherData \in WaterSeries
  /\ cropConfig \in CropConfigs
  /\ irrigationEvents \in EventLists
  /\ isPasture \in PastureFlags(cropConfig)
  /\ AccInit
  /\ call = NoCall
  /\ result = NoResult
  /\ other = NoRun

SpecWater == InitWater /\ [][Next]_vars

---------------------------------------------------------------------------
\* The orchestrator variant without soil-water balance: the runYearSimulation
\* of the earlier calculations module, which takes a weather series and a crop
\* config only. Its four calculators have the same text as the ones above and
\* are the same operators here; its loop and summary are translated apart.
\* A run of the variant is held in other, next to a run of the full function.

\* The variant's accumulators before its loop.
VariantInitAcc ==
  [cumulativeGdd |-> R(0), totalEtc |-> R(0), totalPrecipitation |-> R(0),
   totalWaterDeficit |-> R(0), daysWithDeficit |-> 0, peakPhaseReached |-> "Dormant",
   daily |-> <<>>]

\* One iteration of the variant's loop.
VariantDayStep(a, day, config) ==
  LET gddDaily == calculateDailyGdd(day.tempMax, day.tempMin, config.baseTemp)
      cumulative == RAdd(a.cumulativeGdd, gddDaily)
      currentPhase == getCurrentPhase(cumulative, config.phaseThresholds)
      kc == interpolateKc(cumulative, config)
      etc == calculateEtc(day.et0, kc)
      waterDeficit == MathMax(R(0), RSub(etc, day.precipitation))
  IN  [cumulativeGdd |-> cumulative,
       totalEtc |-> RAdd(a.totalEtc, etc),
       totalPrecipitation |-> RAdd(a.totalPrecipitation, day.precipitation),
       totalWaterDeficit |-> RAdd(a.totalWaterDeficit, waterDeficit),
       daysWithDeficit |-> IF RLt(R(0), waterDeficit)
                           THEN a.daysWithDeficit + 1 ELSE a.daysWithDeficit,
       peakPhaseReached |-> currentPhase,
       daily |-> Append(a.daily,
                        [date |-> day.date,
                         gddDaily |-> Round1(gddDaily),
                         gddCumulative |-> Round1(cumulative),
                         currentPhase |-> currentPhase,
                         kc |-> Round2(kc),
                         et0 |-> day.et0,
                         etc |-> Round1(etc),
                         precipitation |-> day.precipitation,
                         waterDeficit |-> Round1(waterDeficit)])]

\* The SimulationSummary the variant builds after its loop.
VariantSummary(a) ==
  [totalGdd |-> MathRound(a.cumulativeGdd),
   totalEtc |-> MathRound(a.totalEtc),
   totalPrecipitation |-> MathRound(a.totalPrecipitation),
   totalWaterDeficit |-> MathRound(a.totalWaterDeficit),
   peakPhaseReached |-> a.peakPhaseReached,
   daysWithDeficit |-> a.daysWithDeficit]

\* The state of a call of the variant just entered with the given arguments.
NewVariantRun(weather, config) ==
  [pc |-> "loop", weatherData |-> weather, cropConfig |-> config, idx |-> 0,
   acc |-> VariantInitAcc, summary |-> VariantSummary(VariantInitAcc)]

\* A mild dry day, a rainy day and a hot dry day.
VariantDayTypes ==
  { Weather(R(15), R(5), R(0), R(3)), Weather(R(20), R(10), R(10), R(5)),
    Weather(R(800), R(780), R(0), R(80)) }

VariantSeries ==
  UNION { { WithDates(t) : t \in [1..n -> VariantDayTypes] } : n \in 0..MaxDays }

\* The full function is called with isPasture = false and any irrigation
\* list, the variant on the same weather series and crop config.
InitVariant ==
  /\ pc = "start"
  /\ weatherData \in VariantSeries
  /\ cropConfig \in CropConfigs
  /\ irrigationEvents \in EventLists
  /\ isPasture = FALSE
  /\ AccInit
  /\ call = NoCall
  /\ result = NoResult
  /\ other = NewVariantRun(weatherData, cropConfig)

\* The variant processes its next day.
VariantProcessDay ==
  /\ other.pc = "loop"
  /\ other.idx < Len(other.weatherData)
  /\ other' = [other EXCEPT !.acc = VariantDayStep(other.acc,
                                                   other.weatherData[other.idx + 1],
                                                   other.cropConfig),
                            !.idx = other.idx + 1]
  /\ UNCHANGED <<simVars, call, result>>

\* The variant builds its summary and returns.
VariantFinish ==
  /\ other.pc = "loop"
  /\ other.idx = Len(other.weatherData)
  /\ other' = [other EXCEPT !.summary = VariantSummary(other.acc), !.pc = "done"]
  /\ UNCHANGED <<simVars, call, result>>

NextVariant == Next \/ VariantProcessDay \/ VariantFinish

SpecVariant == InitVariant /\ [][NextVariant]_vars

---------------------------------------------------------------------------
\* Single calls of the pure calculators on arguments drawn from small sets.

Temps == {R(-10), R(0), R(5), Frac(91, 10), R(10), R(15), R(20)}

BaseTemps == {R(0), Frac(9, 2), R(10)}

GddCalls ==
  [fn : {"gdd"}, tempMax : Temps, tempMin : Temps, baseTemp : BaseTemps]

\* Apple with only its first two thresholds: lateGdd = endGdd.
TwoPhase ==
  [Apple EXCEPT !.phaseThresholds = <<Threshold("Bloom", 350), Threshold("Expansion", 800)>>]

\* A first threshold at 0: midGdd = 0.
ZeroMid ==
  [Pasture EXCEPT !.phaseThresholds = <<Threshold("Initial", 0), Threshold("Growth", 500),
                                        Threshold("Harverst", 800)>>]

OnePhase == [Apple EXCEPT !.phaseThresholds = <<Threshold("Bloom", 350)>>]

NoPhase == [Apple EXCEPT !.phaseThresholds = <<>>]

\* No plateau: midGdd = lateGdd < endGdd.
NoPlateau ==
  [Vineyard EXCEPT !.phaseThresholds = <<Threshold("Bloom", 350), Threshold("Expansion", 350),
                                         Threshold("Maturiry", 800)>>]

\* All thresholds at one point: midGdd = lateGdd = endGdd.
OnePoint ==
  [Apple EXCEPT !.phaseThresholds = <<Threshold("Bloom", 350), Threshold("Expansion", 350),
                                      Threshold("Maturiry", 350)>>]

\* Coefficients in another order: kcPeak the lowest, kcEnd the highest.
PeakLowest ==
  [Apple EXCEPT !.kcInitial = Frac(9, 10), !.kcPeak = Frac(1, 2), !.kcEnd = Frac(6, 5)]

KcConfigs ==
  {Apple, Vineyard, Pasture, TwoPhase, ZeroMid, OnePhase, NoPhase, NoPlateau, OnePoint,
   PeakLowest}

KcGdds ==
  { R(-10), R(0), Frac(1, 2), R(100), R(175), R(200), R(349), R(350), R(351),
    R(499), R(500), R(650), R(799), R(800), R(801), R(1300), R(1650), R(2499),
    R(2500), R(3000) }

KcCalls == [fn : {"kc"}, cumulativeGdd : KcGdds, cropConfig : KcConfigs]

\* Threshold lists, one of them not sorted ascending.
ThresholdLists ==
  { <<>>, OnePhase.phaseThresholds, TwoPhase.phaseThresholds, Apple.phaseThresholds,
    Vineyard.phaseThresholds, Pasture.phaseThresholds,
    <<Threshold("Expansion", 800), Threshold("Bloom", 350)>> }

PhaseGdds ==
  { R(-5), R(0), R(199), R(200), R(349), Frac(699, 2), R(350), R(351), R(500),
    R(799), R(800), R(900), R(1300), R(2500), R(3000) }

PhaseCalls ==
  [fn : {"phase"}, cumulativeGdd : PhaseGdds, phaseThresholds : ThresholdLists]

InitPure ==
  /\ pc = "idle"
  /\ weatherData = <<>>
  /\ cropConfig = Apple
  /\ irrigationEvents = <<>>
  /\ isPasture = FALSE
  /\ AccInit
  /\ call \in GddCalls \cup KcCalls \cup PhaseCalls
  /\ result = NoResult
  /\ other = NoRun

CallGdd ==
  /\ call.fn = "gdd"
  /\ ~result.returned
  /\ result' = [returned |-> TRUE, str |-> "",
                num |-> calculateDailyGdd(call.tempMax, call.tempMin, call.baseTemp)]
  /\ UNCHANGED <<simVars, call, other>>

CallPhase ==
  /\ call.fn = "phase"
  /\ ~result.returned
  /\ result' = [returned |-> TRUE, num |-> R(0),
                str |-> getCurrentPhase(call.cumulativeGdd, call.phaseThresholds)]
  /\ UNCHANGED <<simVars, call, other>>

CallKc ==
  /\ call.fn = "kc"
  /\ ~result.returned
  /\ result' = [returned |-> TRUE, str |-> "",
                num |-> interpolateKc(call.cumulativeGdd, call.cropConfig)]
  /\ UNCHANGED <<simVars, call, other>>

NextPure == CallGdd \/ CallPhase \/ CallKc

SpecPure == InitPure /\ [][NextPure]_vars

---------------------------------------------------------------------------
\* Properties of runYearSimulation, checked under Spec.

\* The weather record the latest iteration of the loop consumed.
Today == weatherData[idx]

\* The first day had precipitation 50, ETc 5 and no irrigation.
CapScenario ==
  /\ idx = 1
  /\ Today.precipitation = R(50)
  /\ local.etc = R(5)
  /\ local.irrigationApplied = R(0)

\* C1 as claimed: from soilWater 70, a first day with precipitation 50 and
\* ETc 5 (no irrigation) leaves soilWater = 100 and netWaterDeficit = 0.
C1_AsClaimed ==
  CapScenario => soilWater = R(100) /\ local.netWaterDeficit = R(0)

\* C1 amended: from soilWater 70, a first day with precipitation 50 and ETc 5
\* (no irrigation) leaves soilWater = 95 (120 is capped to 100, 20 runs off,
\* then ETc 5 is removed) and netWaterDeficit = 0; the record shows the same.
C1_CapThenRemove ==
  CapScenario =>
    /\ local.soilWaterBefore = R(70)
    /\ soilWater = R(95)
    /\ local.netWaterDeficit = R(0)
    /\ daily[1].soilWater = R(95)
    /\ daily[1].netWaterDeficit = R(0)

C1_Witness == CapScenario /\ pc = "loop"

\* Precipitation, irrigation amounts, ET0 and the Kc coefficients are all >= 0.
NonNegativeInputs ==
  /\ \A i \in 1..Len(weatherData) :
       RLe(R(0), weatherData[i].precipitation) /\ RLe(R(0), weatherData[i].et0)
  /\ \A i \in 1..Len(irrigationEvents) : RLe(R(0), irrigationEvents[i].amount)
  /\ RLe(R(0), cropConfig.kcInitial)
  /\ RLe(R(0), cropConfig.kcPeak)
  /\ RLe(R(0), cropConfig.kcEnd)

\* C2: with non-negative precipitation, irrigation, ET0 and Kc coefficients,
\* 0 <= soilWater <= soilWaterMax (100) before and after every day, so no
\* water above 100 is carried into the next day.
C2_SoilWaterBounds ==
  (pc # "idle" /\ NonNegativeInputs) =>
    /\ RLe(R(0), soilWater) /\ RLe(soilWater, R(soilWaterMax))
    /\ RLe(R(0), local.soilWaterBefore) /\ RLe(local.soilWaterBefore, R(soilWaterMax))
    /\ \A i \in 1..Len(daily) :
         RLe(R(0), daily[i].soilWater) /\ RLe(daily[i].soilWater, R(soilWaterMax))

\* A day whose rain and irrigation together exceeded field capacity.
C2_Witness ==
  /\ NonNegativeInputs
  /\ idx >= 1
  /\ RLt(R(0), local.irrigationApplied)
  /\ RLt(R(soilWaterMax),
         RAdd(local.soilWaterBefore, RAdd(Today.precipitation, local.irrigationApplied)))

\* The running sum of the daily GDD of the first n weather records.
RECURSIVE SumGdd(_)
SumGdd(n) ==
  IF n = 0 THEN R(0)
  ELSE RAdd(SumGdd(n - 1),
            calculateDailyGdd(weatherData[n].tempMax, weatherData[n].tempMin,
                              cropConfig.baseTemp))

\* cycleGdd right after gddDaily was added, before any reset.
CycleBeforeReset == RAdd(local.cycleGddBefore, local.gddDaily)

\* C3: in pasture mode, on a day where adding gddDaily makes cycleGdd >= 800,
\* cycleGdd becomes cycleGdd - 800 rather than 0 (790 + 25 gives 15), and
\* cumulativeGdd stays the plain running sum of gddDaily.
C3_PastureCarryOver ==
  /\ PastureReset(RAdd(R(790), R(25)), TRUE) = R(15)
  /\ (idx >= 1 /\ isPasture /\ RLe(R(pastureHarvestGdd), CycleBeforeReset)) =>
       /\ cycleGdd = RSub(CycleBeforeReset, R(pastureHarvestGdd))
       /\ daily[idx].gddCycle = Round1(RSub(CycleBeforeReset, R(pastureHarvestGdd)))
  /\ pc # "idle" =>
       /\ cumulativeGdd = SumGdd(idx)
       /\ idx >= 1 => daily[idx].gddCumulative = Round1(SumGdd(idx))

\* A reset day that carried a non-zero excess into the next cycle.
C3_Witness ==
  /\ idx >= 1
  /\ isPasture
  /\ RLt(R(pastureHarvestGdd), CycleBeforeReset)
  /\ cycleGdd = R(5)
  /\ RLt(R(pastureHarvestGdd), cumulativeGdd)

\* The first n weather records have the given (tempMax, tempMin) pairs.
TempsAre(n, pairs) ==
  /\ idx >= n
  /\ \A i \in 1..n :
       weatherData[i].tempMax = R(pairs[i][1]) /\ weatherData[i].tempMin = R(pairs[i][2])

ScenarioTemps == <<<<15, 5>>, <<18, 8>>, <<20, 10>>>>

\* C7 as stated: for the 3-day series (tempMax, tempMin) = (15,5), (18,8),
\* (20,10) with baseTemp = 4.5, the daily records report gddCumulative = 5.5,
\* 12.0, 20.5.
C7_AsClaimed ==
  cropConfig.baseTemp = Frac(9, 2) =>
    /\ TempsAre(1, ScenarioTemps) => daily[1].gddCumulative = Frac(55, 10)
    /\ TempsAre(2, ScenarioTemps) => daily[2].gddCumulative = R(12)
    /\ TempsAre(3, ScenarioTemps) => daily[3].gddCumulative = Frac(205, 10)

\* C7: for the 3-day series (tempMax, tempMin) = (15,5), (18,8), (20,10) with
\* baseTemp = 4.5, the daily GDD are 5.5, 8.5, 10.5 and the daily records
\* report gddCumulative = 5.5, 14.0, 24.5.
C7_ScenarioCumulativeGdd ==
  cropConfig.baseTemp = Frac(9, 2) =>
    /\ TempsAre(1, ScenarioTemps) =>
         daily[1].gddDaily = Frac(55, 10) /\ daily[1].gddCumulative = Frac(55, 10)
    /\ TempsAre(2, ScenarioTemps) =>
         daily[2].gddDaily = Frac(85, 10) /\ daily[2].gddCumulative = R(14)
    /\ TempsAre(3, ScenarioTemps) =>
         daily[3].gddDaily = Frac(105, 10) /\ daily[3].gddCumulative = Frac(245, 10)

\* The finished three-day scenario run.
C7_Witness ==
  /\ pc = "done"
  /\ cropConfig.baseTemp = Frac(9, 2)
  /\ TempsAre(3, ScenarioTemps)
  /\ Len(daily) = 3
  /\ summary.totalGdd = R(25)

\* The sum of the amounts of the events whose date is exactly date.
RECURSIVE SumMatching(_, _, _)
SumMatching(events, date, n) ==
  IF n = 0 THEN R(0)
  ELSE RAdd(SumMatching(events, date, n - 1),
            IF events[n].date = date THEN events[n].amount ELSE R(0))

Permute(events, p) == [i \in 1..Len(events) |-> events[p[i]]]

HasRecord(event) == \E i \in 1..Len(weatherData) : weatherData[i].date = event.date

\* C9: the irrigationApplied of a day is the sum of the amounts of all events
\* whose date equals the day's date (0 when there is none); every permutation
\* of the event list gives the same ledger; and events whose date matches no
\* weather record change no daily record and no summary field.
C9_IrrigationLedger ==
  pc \in {"loop", "done"} =>
    /\ \A i \in 1..Len(weatherData) :
         GetOrZero(irrigationMap, weatherData[i].date)
           = SumMatching(irrigationEvents, weatherData[i].date, Len(irrigationEvents))
    /\ idx >= 1 =>
         /\ local.irrigationApplied
              = SumMatching(irrigationEvents, Today.date, Len(irrigationEvents))
         /\ daily[idx].irrigationApplied = Round1(local.irrigationApplied)
    /\ \A p \in Permutations(1..Len(irrigationEvents)) :
         BuildIrrigationMap(Permute(irrigationEvents, p)) = irrigationMap
    /\ (pc = "done" /\ \E i \in 1..Len(irrigationEvents) : ~HasRecord(irrigationEvents[i])) =>
         runYearSimulation(weatherData, cropConfig,
                           SelectSeq(irrigationEvents, HasRecord), isPasture)
           = [daily |-> daily, summary |-> summary]

\* A one-day run with an event of that day and an event of a day it lacks.
C9_Witness ==
  /\ pc = "done"
  /\ Len(weatherData) = 1
  /\ Len(irrigationEvents) = 2
  /\ HasRecord(irrigationEvents[2]) /\ ~HasRecord(irrigationEvents[1])
  /\ daily[1].irrigationApplied = R(20)

\* Steps the run still has to take: one to build the ledger, one per
\* unprocessed weather record, one to return.
StepsLeft ==
  CASE pc = "start" -> Len(weatherData) + 2
    [] pc = "loop"  -> Len(weatherData) - idx + 1
    [] OTHER        -> 0

\* The step the run can take from the current state exists.
CanStep ==
  CASE pc = "start" -> ENABLED BuildLedger
    [] pc = "loop" /\ idx < Len(weatherData) ->
         Len(DayStep(Acc, weatherData[idx + 1], cropConfig, isPasture,
                     irrigationMap).daily) = idx + 1
    [] pc = "loop"  -> ENABLED Finish
    [] OTHER        -> TRUE

\* C10: the run ends after exactly one loop iteration per weather record
\* (until it has returned it can take a step, every step uses up one of the
\* steps left, and a loop iteration appends one record without touching the
\* earlier ones), and the daily list has the length and order of the input:
\* record i carries date, et0 and precipitation of weather record i unchanged.
C10_OneRecordPerDay ==
  /\ [](/\ idx <= Len(weatherData)
        /\ Len(daily) = idx
        /\ pc = "done" <=> StepsLeft = 0
        /\ pc = "done" => idx = Len(weatherData)
        /\ CanStep
        /\ \A i \in 1..idx :
             /\ daily[i].date = weatherData[i].date
             /\ daily[i].et0 = weatherData[i].et0
             /\ daily[i].precipitation = weatherData[i].precipitation)
  /\ [][/\ StepsLeft' = StepsLeft - 1
        /\ idx' \in {idx, idx + 1}
        /\ SubSeq(daily', 1, idx) = daily]_vars

\* A finished three-day run whose input held an ET0 that rounding would change.
C10_Witness ==
  /\ pc = "done"
  /\ Len(daily) = 3
  /\ daily[2].et0 = Frac(25, 2)
  /\ daily[1].date = Dates[1] /\ daily[3].date = Dates[3]

\* C12: gddCumulative never decreases from one daily record to the next,
\* with and without pasture cycling (where gddCycle does fall back), each
\* record reports the accumulator as it stood after that day, and
\* summary.totalGdd is the rounded final value of the same accumulator.
C12_CumulativeGddMonotone ==
  /\ \A i \in 1..(Len(daily) - 1) :
       RLe(daily[i].gddCumulative, daily[i + 1].gddCumulative)
  /\ idx >= 1 => daily[idx].gddCumulative = Round1(cumulativeGdd)
  /\ pc = "done" => summary.totalGdd = MathRound(cumulativeGdd)

\* A finished pasture run whose cycle was reset while the cumulative GDD grew,
\* followed by a day that added nothing.
C12_Witness ==
  /\ pc = "done"
  /\ isPasture
  /\ Len(daily) = 3
  /\ RLt(daily[2].gddCycle, daily[1].gddCycle)
  /\ RLt(daily[1].gddCumulative, daily[2].gddCumulative)
  /\ daily[3].gddCumulative = daily[2].gddCumulative
  /\ summary.totalGdd = R(800)

\* C13: an empty weather series returns an empty daily list and a summary
\* whose numeric fields are all 0 and whose peakPhaseReached is "Dormant",
\* whatever the crop config and the irrigation events.
C13_EmptySeries ==
  (pc = "done" /\ weatherData = <<>>) =>
    /\ daily = <<>>
    /\ summary = [totalGdd |-> R(0), totalEtc |-> R(0), totalPrecipitation |-> R(0),
                  totalWaterDeficit |-> R(0), totalIrrigation |-> R(0),
                  netWaterDeficit |-> R(0), peakPhaseReached |-> "Dormant",
                  daysWithDeficit |-> 0]

\* An empty series returned for the Pasture crop with an irrigation supplied.
C13_Witness ==
  /\ pc = "done"
  /\ weatherData = <<>>
  /\ cropConfig = Pasture
  /\ irrigationEvents = <<Event(Dates[1], R(20)), Event(Dates[1], R(20))>>
  /\ irrigationMap[Dates[1]] = R(40)

\* C15: summary.peakPhaseReached is the currentPhase of the last daily record
\* ("Dormant" when there is none): during the loop the variable always holds
\* the phase resolved on the latest day, whatever earlier days reported.
C15_PeakIsLastPhase ==
  /\ peakPhaseReached = (IF idx = 0 THEN "Dormant" ELSE daily[idx].currentPhase)
  /\ pc = "done" =>
       summary.peakPhaseReached
         = (IF daily = <<>> THEN "Dormant" ELSE daily[Len(daily)].currentPhase)

\* A finished pasture run that reports a lower phase than an earlier day did.
C15_Witness ==
  /\ pc = "done"
  /\ isPasture
  /\ Len(daily) >= 2
  /\ PhaseRank(cropConfig.phaseThresholds, summary.peakPhaseReached)
       < PhaseRank(cropConfig.phaseThresholds, daily[1].currentPhase)
  /\ summary.peakPhaseReached # HighestPhase(daily, cropConfig.phaseThresholds)

\* The water available to the crop on the latest day: what the soil held,
\* plus precipitation and irrigation, capped at field capacity.
AvailableWater ==
  MathMin(RAdd(local.soilWaterBefore, RAdd(Today.precipitation, local.irrigationApplied)),
          R(soilWaterMax))

\* C16: on each day the available water is min(soilWater_prev + precipitation
\* + irrigationApplied, 100), netWaterDeficit = max(0, etc - available) and
\* soilWater_new = max(0, available - etc); so netWaterDeficit > 0 implies
\* soilWater_new = 0, and when the day's supply is non-negative
\* netWaterDeficit <= etc.
C16_NetDeficitDefinition ==
  idx >= 1 =>
    /\ local.netWaterDeficit = MathMax(R(0), RSub(local.etc, AvailableWater))
    /\ soilWater = MathMax(R(0), RSub(AvailableWater, local.etc))
    /\ daily[idx].netWaterDeficit = Round1(local.netWaterDeficit)
    /\ daily[idx].soilWater = Round1(soilWater)
    /\ RLt(R(0), local.netWaterDeficit) => soilWater = R(0)
    /\ NonNegativeInputs => RLe(local.netWaterDeficit, local.etc)

\* A day that found water in the soil, was irrigated, and still ended in deficit.
C16_Witness ==
  /\ idx >= 1
  /\ NonNegativeInputs
  /\ RLt(R(0), local.soilWaterBefore)
  /\ RLt(R(0), local.netWaterDeficit)
  /\ RLt(local.netWaterDeficit, local.etc)
  /\ soilWater = R(0)

\* The fields of a daily record that irrigation has no part in.
ClimateFields(record) ==
  [date |-> record.date, gddDaily |-> record.gddDaily,
   gddCumulative |-> record.gddCumulative, gddCycle |-> record.gddCycle,
   currentPhase |-> record.currentPhase, kc |-> record.kc, et0 |-> record.et0,
   etc |-> record.etc, precipitation |-> record.precipitation,
   waterDeficit |-> record.waterDeficit]

\* The fields of the summary that irrigation has no part in.
ClimateTotals(s) ==
  [totalGdd |-> s.totalGdd, totalEtc |-> s.totalEtc,
   totalPrecipitation |-> s.totalPrecipitation,
   totalWaterDeficit |-> s.totalWaterDeficit, peakPhaseReached |-> s.peakPhaseReached]

\* What the run would return on the same weather, crop and pasture flag with
\* another irrigation list.
RunWith(events) == runYearSimulation(weatherData, cropConfig, events, isPasture)

\* C17: for a fixed weather series, crop config and pasture flag, every day's
\* gddDaily, gddCumulative, gddCycle, currentPhase, kc, etc and waterDeficit
\* (= max(0, etc - precipitation)) and the summary's totalWaterDeficit (and
\* its other climate totals) are the same for every irrigation event list:
\* each list returns what the empty list returns in these fields, so any two
\* lists agree. Irrigation reaches only irrigationApplied, soilWater,
\* netWaterDeficit, totalIrrigation, summary.netWaterDeficit and
\* daysWithDeficit.
C17_DeficitIgnoresIrrigation ==
  /\ idx >= 1 =>
       /\ local.waterDeficit = MathMax(R(0), RSub(local.etc, Today.precipitation))
       /\ daily[idx].waterDeficit = Round1(local.waterDeficit)
  /\ (pc = "done" /\ irrigationEvents # <<>>) =>
       \A dry \in {RunWith(<<>>)} :
         /\ Len(dry.daily) = Len(daily)
         /\ \A i \in 1..Len(daily) : ClimateFields(dry.daily[i]) = ClimateFields(daily[i])
         /\ ClimateTotals(dry.summary) = ClimateTotals(summary)

\* A finished run whose irrigation changed the soil water, the net deficit
\* and the days in deficit against the same run without irrigation.
C17_Witness ==
  /\ pc = "done"
  /\ Len(daily) >= 2
  /\ daily[1].irrigationApplied = R(20)
  /\ RunWith(<<>>).daily[1].soilWater # daily[1].soilWater
  /\ RunWith(<<>>).daily[1].netWaterDeficit # daily[1].netWaterDeficit
  /\ RunWith(<<>>).summary.daysWithDeficit # summary.daysWithDeficit
  /\ RunWith(<<>>).summary.netWaterDeficit # summary.netWaterDeficit
  /\ RunWith(<<>>).summary.totalWaterDeficit = summary.totalWaterDeficit

\* The latest day ended a pasture cycle.
ResetDay == idx >= 1 /\ isPasture /\ RLe(R(pastureHarvestGdd), CycleBeforeReset)

\* C18: on every day currentPhase and kc are getCurrentPhase and interpolateKc
\* evaluated at cycleGdd when isPasture is true and at cumulativeGdd otherwise;
\* in pasture mode that is the cycleGdd after the reset of the same day, so on
\* a reset day the lookup sees the remainder carried over, not the value that
\* reached the harvest threshold.
C18_LookupValue ==
  idx >= 1 =>
    /\ local.gddForPhaseAndKc = (IF isPasture THEN cycleGdd ELSE cumulativeGdd)
    /\ local.currentPhase
         = getCurrentPhase(local.gddForPhaseAndKc, cropConfig.phaseThresholds)
    /\ local.kc = interpolateKc(local.gddForPhaseAndKc, cropConfig)
    /\ daily[idx].currentPhase = local.currentPhase
    /\ daily[idx].kc = Round2(local.kc)
    /\ ResetDay =>
         /\ local.gddForPhaseAndKc = RSub(CycleBeforeReset, R(pastureHarvestGdd))
         /\ RLt(local.gddForPhaseAndKc, CycleBeforeReset)

\* A reset day whose phase would have been the last one before the reset.
C18_Witness ==
  /\ ResetDay
  /\ RLt(R(0), local.gddForPhaseAndKc)
  /\ local.currentPhase = "Dormant"
  /\ getCurrentPhase(CycleBeforeReset, cropConfig.phaseThresholds) = "Harverst"
  /\ RLt(cycleGdd, cumulativeGdd)

\* C19 as claimed: in pasture mode, on every day on which the cycle GDD
\* reaches the 800 harvest threshold and the cycle resets, the kc computed
\* that day equals kcInitial.
C19_AsClaimed ==
  ResetDay => local.kc = cropConfig.kcInitial /\ daily[idx].kc = Round2(cropConfig.kcInitial)

\* The number of daily records that report a net deficit.
ReportedDeficitDays ==
  Cardinality({i \in 1..Len(daily) : RLt(R(0), daily[i].netWaterDeficit)})

\* C20: daysWithDeficit starts at 0 and every day adds 1 to it exactly when
\* the soil-water update of that day produced netWaterDeficit > 0, whatever
\* the day's theoretical waterDeficit; no other step changes it; so it counts
\* the days in net deficit, it is at least the number of records reporting
\* one and at most the number of weather records, and the summary returns it.
C20_DaysWithDeficit ==
  /\ [](/\ pc = "start" => daysWithDeficit = 0
        /\ ReportedDeficitDays <= daysWithDeficit
        /\ daysWithDeficit <= idx
        /\ idx <= Len(weatherData)
        /\ pc = "done" => summary.daysWithDeficit = daysWithDeficit)
  /\ [][IF idx' # idx
        THEN daysWithDeficit'
               = daysWithDeficit + (IF RLt(R(0), local'.netWaterDeficit) THEN 1 ELSE 0)
        ELSE daysWithDeficit' = daysWithDeficit]_vars

\* A finished run with one day in net deficit after a day whose theoretical
\* deficit the soil water covered.
C20_Witness ==
  /\ pc = "done"
  /\ Len(daily) = 3
  /\ summary.daysWithDeficit = 1
  /\ RLt(R(0), daily[1].waterDeficit) /\ daily[1].netWaterDeficit = R(0)
  /\ RLt(R(0), daily[3].netWaterDeficit)

\* The GDD that completed pasture cycles have taken out of cycleGdd.
HarvestedGdd == RSub(cumulativeGdd, cycleGdd)

\* No day so far added 800 GDD or more.
NoDayFillsACycle ==
  \A i \in 1..Len(daily) : RLt(daily[i].gddDaily, R(pastureHarvestGdd))

\* C22: after every day cumulativeGdd - cycleGdd is a non-negative integer
\* multiple of 800; outside pasture mode it is 0 (gddCycle equals
\* gddCumulative in every record); in pasture mode, when every gddDaily is
\* below 800, 0 <= cycleGdd < 800.
C22_CycleAccumulator ==
  /\ HarvestedGdd[2] = 1
  /\ HarvestedGdd[1] >= 0
  /\ HarvestedGdd[1] % pastureHarvestGdd = 0
  /\ ~isPasture =>
       /\ cycleGdd = cumulativeGdd
       /\ \A i \in 1..Len(daily) : daily[i].gddCycle = daily[i].gddCumulative
  /\ (isPasture /\ NoDayFillsACycle) =>
       RLe(R(0), cycleGdd) /\ RLt(cycleGdd, R(pastureHarvestGdd))

\* A pasture run that has completed two cycles and is into its third.
C22_Witness ==
  /\ isPasture
  /\ NoDayFillsACycle
  /\ HarvestedGdd = R(2 * pastureHarvestGdd)
  /\ RLt(R(0), cycleGdd)

\* The position in the threshold list of the phase record i reports.
RankOfDay(i) == PhaseRank(cropConfig.phaseThresholds, daily[i].currentPhase)

\* The thresholds of the crop are in strictly ascending order of gdd.
ThresholdsAscend ==
  \A i \in 1..(Len(cropConfig.phaseThresholds) - 1) :
    RLt(cropConfig.phaseThresholds[i].gdd, cropConfig.phaseThresholds[i + 1].gdd)

\* C24: with thresholds sorted ascending, outside pasture mode the position
\* of currentPhase in the threshold list (Dormant = 0) never decreases from
\* one daily record to the next; a record reports an earlier phase than the
\* record before it only in pasture mode, on a day whose cycle was reset.
C24_PhaseNeverRegresses ==
  ThresholdsAscend =>
    \A i \in 1..(Len(daily) - 1) :
      /\ ~isPasture => RankOfDay(i) <= RankOfDay(i + 1)
      /\ RankOfDay(i + 1) < RankOfDay(i) =>
           /\ isPasture
           /\ RLt(daily[i + 1].gddCycle, daily[i].gddCycle)
           /\ RLt(daily[i].gddCumulative, daily[i + 1].gddCumulative)

\* A run outside pasture mode that moved up a phase on each of two days.
C24_Witness ==
  /\ ~isPasture
  /\ Len(daily) = 3
  /\ RankOfDay(1) = 0 /\ RankOfDay(2) = 1 /\ RankOfDay(3) = 2

---------------------------------------------------------------------------
\* Properties of the pure calculators, checked under SpecPure.

KcReturned == call.fn = "kc" /\ result.returned

MidGdd(config) == config.phaseThresholds[1].gdd

LateGdd(config) == config.phaseThresholds[2].gdd

EndGdd(config) == config.phaseThresholds[Len(config.phaseThresholds)].gdd

\* At least 2 thresholds and 0 < midGdd <= lateGdd <= endGdd.
CurveConfig(config) ==
  /\ Len(config.phaseThresholds) >= 2
  /\ RLt(R(0), MidGdd(config))
  /\ RLe(MidGdd(config), LateGdd(config))
  /\ RLe(LateGdd(config), EndGdd(config))

\* The three-segment curve, case by case.
KcCurve(gdd, config) ==
  CASE RLe(gdd, R(0)) -> config.kcInitial
    [] RLt(R(0), gdd) /\ RLt(gdd, MidGdd(config)) ->
         RAdd(config.kcInitial,
              RMul(RDiv(gdd, MidGdd(config)), RSub(config.kcPeak, config.kcInitial)))
    [] RLe(MidGdd(config), gdd) /\ RLt(gdd, LateGdd(config)) -> config.kcPeak
    [] RLe(LateGdd(config), gdd) /\ RLt(gdd, EndGdd(config)) ->
         RAdd(config.kcPeak,
              RMul(RDiv(RSub(gdd, LateGdd(config)),
                        RSub(EndGdd(config), LateGdd(config))),
                   RSub(config.kcEnd, config.kcPeak)))
    [] RLe(EndGdd(config), gdd) -> config.kcEnd

\* C4: for every config with at least 2 thresholds and 0 < midGdd <= lateGdd <=
\* endGdd, interpolateKc returns the three-segment curve; with (0.40, 1.00, 0.70)
\* and thresholds 350/800/2500 it returns 0.40, 0.70, 1.00, 0.85, 0.70 at gdd
\* 0, 175, 500, 1650, 3000.
C4_ThreeSegmentCurve ==
  KcReturned =>
    /\ CurveConfig(call.cropConfig) =>
         result.num = KcCurve(call.cumulativeGdd, call.cropConfig)
    /\ call.cropConfig = Apple =>
         /\ call.cumulativeGdd = R(0) => result.num = Frac(40, 100)
         /\ call.cumulativeGdd = R(175) => result.num = Frac(70, 100)
         /\ call.cumulativeGdd = R(500) => result.num = R(1)
         /\ call.cumulativeGdd = R(1650) => result.num = Frac(85, 100)
         /\ call.cumulativeGdd = R(3000) => result.num = Frac(70, 100)

\* The midpoint of the late-season decline of the example curve.
C4_Witness ==
  /\ KcReturned
  /\ call.cropConfig = Apple
  /\ call.cumulativeGdd = R(1650)
  /\ result.num = Frac(85, 100)

\* midGdd = 0 or lateGdd = endGdd.
ZeroDivisorConfig(config) ==
  /\ Len(config.phaseThresholds) >= 2
  /\ \/ MidGdd(config) = R(0)
     \/ LateGdd(config) = EndGdd(config)

\* C5 as claimed: when midGdd = 0 or lateGdd = endGdd there is a cumulativeGdd
\* for which interpolateKc divides by zero (and returns a non-finite number).
C5_AsClaimed ==
  (KcReturned /\ ZeroDivisorConfig(call.cropConfig)) =>
    \E gdd \in KcGdds : ~IsFinite(interpolateKc(gdd, call.cropConfig))

\* C5 amended: interpolateKc never divides by zero; for every cumulativeGdd and
\* every config, midGdd = 0 and lateGdd = endGdd included, it returns a finite
\* number, because each division is reached only when its divisor is > 0: with
\* midGdd = 0 it returns kcInitial up to 0 and skips the development branch,
\* and with lateGdd = endGdd it goes from kcPeak straight to kcEnd.
C5_NoDivisionByZero ==
  KcReturned =>
    /\ IsFinite(result.num)
    /\ (Len(call.cropConfig.phaseThresholds) >= 2
        /\ MidGdd(call.cropConfig) = R(0)
        /\ RLt(R(0), call.cumulativeGdd)
        /\ RLt(call.cumulativeGdd, LateGdd(call.cropConfig))) =>
         result.num = call.cropConfig.kcPeak
    /\ (Len(call.cropConfig.phaseThresholds) >= 2
        /\ LateGdd(call.cropConfig) = EndGdd(call.cropConfig)
        /\ RLe(LateGdd(call.cropConfig), call.cumulativeGdd)) =>
         result.num = call.cropConfig.kcEnd

\* A call exactly at lateGdd = endGdd, where the divisor would be 0.
C5_Witness ==
  /\ KcReturned
  /\ call.cropConfig = TwoPhase
  /\ call.cumulativeGdd = EndGdd(TwoPhase)
  /\ result.num = TwoPhase.kcEnd

PhaseReturned == call.fn = "phase" /\ result.returned

\* Strictly ascending by gdd.
SortedAscending(thresholds) ==
  \A i \in 1..Len(thresholds) - 1 : RLt(thresholds[i].gdd, thresholds[i + 1].gdd)

\* The name of the highest threshold whose gdd is <= gdd, "Dormant" if none is.
HighestReached(gdd, thresholds) ==
  LET reached == { i \in 1..Len(thresholds) : RLe(thresholds[i].gdd, gdd) }
  IN  IF reached = {} THEN "Dormant"
      ELSE thresholds[CHOOSE i \in reached :
                        \A j \in reached : RLe(thresholds[j].gdd, thresholds[i].gdd)].name

\* C6: for every cumulativeGdd (zero and negative included) and every threshold
\* list sorted ascending, getCurrentPhase returns the name of the highest
\* threshold whose gdd <= cumulativeGdd and "Dormant" when none is reached;
\* gdd = threshold counts as reached (Bloom@350, Expansion@800: 349 -> Dormant,
\* 350 -> Bloom, 900 -> Expansion).
C6_HighestReachedPhase ==
  PhaseReturned =>
    /\ SortedAscending(call.phaseThresholds) =>
         result.str = HighestReached(call.cumulativeGdd, call.phaseThresholds)
    /\ call.phaseThresholds = TwoPhase.phaseThresholds =>
         /\ call.cumulativeGdd = R(349) => result.str = "Dormant"
         /\ call.cumulativeGdd = R(350) => result.str = "Bloom"
         /\ call.cumulativeGdd = R(900) => result.str = "Expansion"

\* The boundary: cumulativeGdd equal to the first threshold.
C6_Witness ==
  /\ PhaseReturned
  /\ call.phaseThresholds = TwoPhase.phaseThresholds
  /\ call.cumulativeGdd = R(350)
  /\ result.str = "Bloom"

GddReturned == call.fn = "gdd" /\ result.returned

MeanTemp == RDiv(RAdd(call.tempMax, call.tempMin), R(2))

\* C8: calculateDailyGdd returns max(0, (tempMax + tempMin)/2 - baseTemp): never
\* negative, 0 whenever the mean temperature is at or below baseTemp, and
\* (20, 10, 4.5) gives 10.5 and (5, 0, 10) gives 0.
C8_DailyGddClamped ==
  GddReturned =>
    /\ RLe(R(0), result.num)
    /\ RLe(MeanTemp, call.baseTemp) => result.num = R(0)
    /\ RLt(call.baseTemp, MeanTemp) => result.num = RSub(MeanTemp, call.baseTemp)
    /\ (call.tempMax = R(20) /\ call.tempMin = R(10) /\ call.baseTemp = Frac(9, 2)) =>
         result.num = Frac(21, 2)
    /\ (call.tempMax = R(5) /\ call.tempMin = R(0) /\ call.baseTemp = R(10)) =>
         result.num = R(0)

\* A mean temperature below baseTemp, clamped to 0.
C8_Witness ==
  /\ GddReturned
  /\ call.tempMax = R(5) /\ call.tempMin = R(0) /\ call.baseTemp = R(10)
  /\ result.num = R(0)

\* Values a coefficient or a threshold can hold, NaN and Infinity included.
AnyNumbers == {R(-1), R(0), Frac(1, 2), R(350), <<0, 0>>, <<1, 0>>}

\* The threshold lists with fewer than 2 entries, whatever the entry holds.
ShortThresholdLists ==
  {<<>>} \cup { <<[name |-> "Bloom", gdd |-> g]>> : g \in AnyNumbers }

\* C14: with fewer than 2 phase thresholds interpolateKc returns kcInitial for
\* every cumulativeGdd, negative, zero or large, and the result does not
\* depend on kcPeak, kcEnd or the threshold: it is the same kcInitial for
\* every value they can hold.
C14_DegenerateKc ==
  (KcReturned /\ Len(call.cropConfig.phaseThresholds) < 2) =>
    /\ result.num = call.cropConfig.kcInitial
    /\ \A peak \in AnyNumbers, end \in AnyNumbers, short \in ShortThresholdLists :
         interpolateKc(call.cumulativeGdd,
                       [call.cropConfig EXCEPT !.kcPeak = peak, !.kcEnd = end,
                                               !.phaseThresholds = short])
           = call.cropConfig.kcInitial

\* A call with a single threshold and a cumulativeGdd beyond it.
C14_Witness ==
  /\ KcReturned
  /\ call.cropConfig = OnePhase
  /\ call.cumulativeGdd = R(3000)
  /\ result.num = Frac(4, 10)

\* The lowest and the highest of the three configured coefficients.
KcLowest(config) == MathMin(config.kcInitial, MathMin(config.kcPeak, config.kcEnd))

KcHighest(config) == MathMax(config.kcInitial, MathMax(config.kcPeak, config.kcEnd))

\* C28: for every cumulativeGdd and every config with 0 < midGdd <= lateGdd <=
\* endGdd, interpolateKc returns a value between the lowest and the highest of
\* kcInitial, kcPeak and kcEnd; when lateGdd < endGdd it returns exactly kcPeak
\* at cumulativeGdd = midGdd and at cumulativeGdd = lateGdd, and it returns
\* kcPeak at midGdd also when midGdd < lateGdd = endGdd.
C28_KcWithinCoefficients ==
  (KcReturned /\ CurveConfig(call.cropConfig)) =>
    /\ RLe(KcLowest(call.cropConfig), result.num)
    /\ RLe(result.num, KcHighest(call.cropConfig))
    /\ (/\ call.cumulativeGdd = MidGdd(call.cropConfig)
        /\ \/ RLt(MidGdd(call.cropConfig), LateGdd(call.cropConfig))
           \/ RLt(LateGdd(call.cropConfig), EndGdd(call.cropConfig))) =>
         result.num = call.cropConfig.kcPeak
    /\ (/\ call.cumulativeGdd = LateGdd(call.cropConfig)
        /\ RLt(LateGdd(call.cropConfig), EndGdd(call.cropConfig))) =>
         result.num = call.cropConfig.kcPeak

\* The join of the two ramps of a curve without plateau: kcPeak exactly, which
\* is neither kcInitial nor kcEnd.
C28_Witness ==
  /\ KcReturned
  /\ call.cropConfig = NoPlateau
  /\ call.cumulativeGdd = MidGdd(NoPlateau)
  /\ call.cumulativeGdd = LateGdd(NoPlateau)
  /\ result.num = NoPlateau.kcPeak
  /\ result.num # NoPlateau.kcInitial
  /\ result.num # NoPlateau.kcEnd

---------------------------------------------------------------------------
\* Properties of runs on malformed irrigation lists, checked under SpecLedger.

\* The sum of the amounts of all events dated on one of the first n records.
RECURSIVE SumApplied(_)
SumApplied(n) ==
  IF n = 0 THEN R(0)
  ELSE RAdd(SumApplied(n - 1),
            SumMatching(irrigationEvents, weatherData[n].date, Len(irrigationEvents)))

\* The events of the dates whose amounts do not cancel out.
Effective(event) ==
  SumMatching(irrigationEvents, event.date, Len(irrigationEvents)) # R(0)

\* Every number of a daily record is a finite number.
FiniteRecord(record) ==
  \A f \in {"gddDaily", "gddCumulative", "gddCycle", "kc", "et0", "etc",
            "precipitation", "waterDeficit", "irrigationApplied", "soilWater",
            "netWaterDeficit"} : IsFinite(record[f])

\* C21: an irrigation list with non-positive amounts is processed like any
\* other: the run takes every step to its return and every number it reports
\* is finite; each amount, negative or zero, is summed into its date's ledger
\* entry, so a negative amount lowers that day's irrigationApplied and
\* totalIrrigation by its magnitude; and a date whose entries sum to 0 is
\* treated exactly as a date without irrigation.
C21_NegativeAmountsSummed ==
  /\ CanStep
  /\ \A i \in 1..Len(daily) : FiniteRecord(daily[i])
  /\ pc \in {"loop", "done"} =>
       \A i \in 1..Len(irrigationEvents) :
         /\ MapHas(irrigationMap, irrigationEvents[i].date)
         /\ irrigationMap[irrigationEvents[i].date]
              = SumMatching(irrigationEvents, irrigationEvents[i].date,
                            Len(irrigationEvents))
  /\ idx >= 1 =>
       /\ local.irrigationApplied
            = SumMatching(irrigationEvents, Today.date, Len(irrigationEvents))
       /\ daily[idx].irrigationApplied = Round1(local.irrigationApplied)
  /\ totalIrrigation = SumApplied(idx)
  /\ pc = "done" =>
       /\ summary.totalIrrigation = MathRound(SumApplied(Len(weatherData)))
       /\ \A same \in {runYearSimulation(weatherData, cropConfig,
                                         SelectSeq(irrigationEvents, Effective), isPasture)} :
            same = [daily |-> daily, summary |-> summary]

\* A finished run whose first day had an irrigation of 20 cancelled by an
\* entry of -20, and whose second day had an entry of -5 alone.
C21_Witness ==
  /\ pc = "done"
  /\ Len(daily) >= 2
  /\ irrigationEvents = <<Event(Dates[1], R(20)), Event(Dates[1], R(-20))>>
  /\ MapHas(irrigationMap, Dates[1]) /\ irrigationMap[Dates[1]] = R(0)
  /\ daily[1].irrigationApplied = R(0)
  /\ summary.totalIrrigation = R(0)

---------------------------------------------------------------------------
\* Properties of the Pasture crop in pasture mode, checked under SpecPasture.

LastPasturePhase == Pasture.phaseThresholds[Len(Pasture.phaseThresholds)]

\* The run is the Pasture crop in pasture mode and no day so far added 800
\* GDD or more.
PastureCycling == isPasture /\ cropConfig = Pasture /\ NoDayFillsACycle

\* C23 as claimed: with the Pasture crop in pasture mode and every gddDaily
\* below 800, no daily record has the phase whose threshold is 800, the past
\* end of season branch of interpolateKc is never taken, and Kc never equals
\* kcEnd.
C23_AsClaimed ==
  (PastureCycling /\ idx >= 1) =>
    /\ \A i \in 1..Len(daily) : daily[i].currentPhase # LastPasturePhase.name
    /\ RLt(local.gddForPhaseAndKc, LastPasturePhase.gdd)
    /\ local.kc # cropConfig.kcEnd

\* C23 amended: with the Pasture crop in pasture mode and every gddDaily below
\* 800, no daily record has the phase whose threshold is 800 and the past end
\* of season branch of interpolateKc is never taken (the lookup value stays
\* below 800), so in the late-season decline Kc stays between kcEnd and
\* kcPeak; Kc can still equal kcEnd exactly, on the development ramp from
\* kcInitial to kcPeak, where it passes kcEnd at cycleGdd = 1200/11.
C23_LastPhaseUnreachable ==
  (PastureCycling /\ idx >= 1) =>
    /\ \A i \in 1..Len(daily) : daily[i].currentPhase # LastPasturePhase.name
    /\ RLt(local.gddForPhaseAndKc, LastPasturePhase.gdd)
    /\ RLe(Pasture.phaseThresholds[2].gdd, local.gddForPhaseAndKc) =>
         RLe(cropConfig.kcEnd, local.kc) /\ RLe(local.kc, cropConfig.kcPeak)
    /\ local.kc = cropConfig.kcEnd =>
         /\ local.gddForPhaseAndKc = Frac(1200, 11)
         /\ RLt(local.gddForPhaseAndKc, Pasture.phaseThresholds[1].gdd)

\* A day on the development ramp whose Kc is exactly kcEnd, after a day that
\* took cycleGdd to the threshold and reset it.
C23_Witness ==
  /\ PastureCycling
  /\ idx = 3
  /\ RLe(R(pastureHarvestGdd), cumulativeGdd)
  /\ local.gddForPhaseAndKc = Frac(1200, 11)
  /\ local.kc = cropConfig.kcEnd
  /\ daily[idx].kc = Frac(8, 10)

---------------------------------------------------------------------------
\* Properties of concurrent invocations, checked under SpecRuns.

\* The arguments of an invocation.
Inputs == <<weatherData, cropConfig, irrigationEvents, isPasture>>

OtherInputs ==
  <<other.weatherData, other.cropConfig, other.irrigationEvents, other.isPasture>>

\* C11: two runs on identical inputs produce identical daily lists and
\* summaries under every interleaving of their steps with each other or with
\* another run; each run returns what it returns when run alone; every run
\* starts from fresh accumulators and an empty irrigation map whatever the
\* other run has done; and no step modifies the weather series, the crop
\* config or the irrigation list of either run.
C11_IndependentRuns ==
  /\ [](/\ (pc = "done" /\ other.pc = "done" /\ Inputs = OtherInputs) =>
             daily = other.acc.daily /\ summary = other.summary
        /\ pc = "done" =>
             [daily |-> daily, summary |-> summary]
               = runYearSimulation(weatherData, cropConfig, irrigationEvents, isPasture)
        /\ other.pc = "done" =>
             [daily |-> other.acc.daily, summary |-> other.summary]
               = runYearSimulation(other.weatherData, other.cropConfig,
                                   other.irrigationEvents, other.isPasture)
        /\ pc = "start" => Acc = InitAcc /\ irrigationMap = EmptyMap
        /\ other.pc = "start" => other.acc = InitAcc /\ other.irrigationMap = EmptyMap)
  /\ [][Inputs' = Inputs /\ OtherInputs' = OtherInputs]_vars

\* Both runs returned, on the same inputs with an irrigation that was applied.
C11_Witness ==
  /\ pc = "done" /\ other.pc = "done"
  /\ Inputs = OtherInputs
  /\ Len(daily) >= 2
  /\ daily[1].irrigationApplied = R(20)
  /\ other.acc.daily[1].irrigationApplied = R(20)

---------------------------------------------------------------------------
\* Properties of a run against the same run with one more irrigation,
\* checked under SpecIrrigate.

\* The second run was given the first run's arguments and one more event,
\* of an amount > 0.
OneMoreIrrigation ==
  /\ other.weatherData = weatherData
  /\ other.cropConfig = cropConfig
  /\ other.isPasture = isPasture
  /\ Len(other.irrigationEvents) = Len(irrigationEvents) + 1
  /\ SubSeq(other.irrigationEvents, 1, Len(irrigationEvents)) = irrigationEvents
  /\ RLt(R(0), other.irrigationEvents[Len(other.irrigationEvents)].amount)

\* C25: when the second run has the first run's weather, config, pasture
\* flag and irrigation list plus one extra event of amount > 0, then after
\* the same number of days the second run has soilWater >= and
\* netWaterDeficit <= the first run's (unrounded, and so in every pair of
\* daily records), and its daysWithDeficit and total net deficit, in the
\* accumulators and in the summary, are not larger.
C25_IrrigationNeverHurts ==
  OneMoreIrrigation =>
    /\ other.idx = idx =>
         /\ RLe(soilWater, other.acc.soilWater)
         /\ RLe(other.acc.local.netWaterDeficit, local.netWaterDeficit)
         /\ other.acc.daysWithDeficit <= daysWithDeficit
         /\ RLe(other.acc.totalNetWaterDeficit, totalNetWaterDeficit)
    /\ \A i \in 1..Len(daily) :
         i <= Len(other.acc.daily) =>
           /\ RLe(daily[i].soilWater, other.acc.daily[i].soilWater)
           /\ RLe(other.acc.daily[i].netWaterDeficit, daily[i].netWaterDeficit)
    /\ (pc = "done" /\ other.pc = "done") =>
         /\ other.summary.daysWithDeficit <= summary.daysWithDeficit
         /\ RLe(other.summary.netWaterDeficit, summary.netWaterDeficit)

\* Both runs returned; the extra irrigation spared the second run a day in
\* deficit and left it more soil water on another day.
C25_Witness ==
  /\ OneMoreIrrigation
  /\ pc = "done" /\ other.pc = "done"
  /\ Len(daily) = 3
  /\ other.summary.daysWithDeficit < summary.daysWithDeficit
  /\ RLt(other.summary.netWaterDeficit, summary.netWaterDeficit)
  /\ \E i \in 1..3 : RLt(daily[i].soilWater, other.acc.daily[i].soilWater)

---------------------------------------------------------------------------
\* Properties of the soil water balance, checked under SpecWater.

\* No day's precipitation exceeds field capacity.
RainWithinCapacity ==
  \A i \in 1..Len(weatherData) : RLe(weatherData[i].precipitation, R(soilWaterMax))

\* C26: with irrigation amounts, ET0 and Kc >= 0 and 0 <= precipitation <= 100
\* on every day, each day's netWaterDeficit is <= its waterDeficit (unrounded,
\* and so in the daily records), hence totalNetWaterDeficit <=
\* totalWaterDeficit, in the accumulators and in the summary.
C26_NetBelowTheoretical ==
  (NonNegativeInputs /\ RainWithinCapacity) =>
    /\ idx >= 1 => RLe(local.netWaterDeficit, local.waterDeficit)
    /\ \A i \in 1..Len(daily) : RLe(daily[i].netWaterDeficit, daily[i].waterDeficit)
    /\ RLe(totalNetWaterDeficit, totalWaterDeficit)
    /\ pc = "done" => RLe(summary.netWaterDeficit, summary.totalWaterDeficit)

\* A day in net deficit, the stored soil water covering part of the day's ETc, so that the net deficit is positive and strictly below the
\* theoretical deficit, on the day and in the totals.
C26_Witness ==
  /\ NonNegativeInputs /\ RainWithinCapacity
  /\ idx >= 2
  /\ RLt(R(0), local.netWaterDeficit)
  /\ RLt(local.netWaterDeficit, local.waterDeficit)
  /\ RLt(R(0), local.soilWaterBefore)
  /\ RLt(totalNetWaterDeficit, totalWaterDeficit)

\* The water lost above field capacity on a day that found the soil holding
\* water and received precipitation and irrigationApplied.
Runoff(water, precipitation, irrigationApplied) ==
  MathMax(R(0), RSub(RAdd(water, RAdd(precipitation, irrigationApplied)),
                     R(soilWaterMax)))

\* The runoff of days i..n of the run, a being the accumulators before day i.
RECURSIVE RunoffFrom(_, _, _)
RunoffFrom(a, i, n) ==
  IF i > n THEN R(0)
  ELSE RAdd(Runoff(a.soilWater, weatherData[i].precipitation,
                   GetOrZero(irrigationMap, weatherData[i].date)),
            RunoffFrom(DayStep(a, weatherData[i], cropConfig, isPasture, irrigationMap),
                       i + 1, n))

\* The runoff of all the days processed so far.
TotalRunoff == RunoffFrom(InitAcc, 1, idx)

\* C27: on every day soilWater_new = soilWater_prev + precipitation +
\* irrigationApplied - runoff - etc + netWaterDeficit, with runoff =
\* max(0, soilWater_prev + precipitation + irrigationApplied - 100); so after
\* any number of days soilWater = 70 + totalPrecipitation + totalIrrigation -
\* total runoff - totalEtc + totalNetWaterDeficit, on the unrounded
\* accumulators.
C27_WaterMassBalance ==
  /\ idx >= 1 =>
       soilWater =
         RAdd(RSub(RSub(RAdd(local.soilWaterBefore,
                             RAdd(Today.precipitation, local.irrigationApplied)),
                        Runoff(local.soilWaterBefore, Today.precipitation,
                               local.irrigationApplied)),
                   local.etc),
              local.netWaterDeficit)
  /\ pc \in {"loop", "done"} =>
       \A runoff \in {TotalRunoff} :
         soilWater =
           RAdd(RSub(RSub(RAdd(R(70), RAdd(totalPrecipitation, totalIrrigation)),
                          runoff),
                     totalEtc),
                totalNetWaterDeficit)

\* A run of several days that has lost water to runoff, has been irrigated and
\* has ended a day in net deficit.
C27_Witness ==
  /\ pc = "done"
  /\ idx >= 2
  /\ RLt(R(0), TotalRunoff)
  /\ RLt(R(0), totalIrrigation)
  /\ RLt(R(0), totalNetWaterDeficit)
  /\ RLt(R(0), totalEtc)

---------------------------------------------------------------------------
\* Properties of the full function against the variant without soil-water
\* balance, checked under SpecVariant.

\* The fields of a daily record of the full function that the variant has too.
VariantFields(record) ==
  [date |-> record.date, gddDaily |-> record.gddDaily,
   gddCumulative |-> record.gddCumulative, currentPhase |-> record.currentPhase,
   kc |-> record.kc, et0 |-> record.et0, etc |-> record.etc,
   precipitation |-> record.precipitation, waterDeficit |-> record.waterDeficit]

\* C29: the variant without soil-water balance and the full function called
\* with isPasture = false, on the same weather series and crop config and with
\* any irrigation list for the full function, return the same date, gddDaily,
\* gddCumulative, currentPhase, kc, et0, etc, precipitation and waterDeficit
\* day by day, and the same totalGdd, totalEtc, totalPrecipitation,
\* totalWaterDeficit and peakPhaseReached (and, after equally many days, the
\* same unrounded accumulators); daysWithDeficit is left out, the variant
\* counting days of waterDeficit > 0 and the full function days of
\* netWaterDeficit > 0.
C29_VariantAgreement ==
  (~isPasture /\ other.weatherData = weatherData /\ other.cropConfig = cropConfig) =>
    /\ \A i \in 1..Len(daily) :
         i <= Len(other.acc.daily) => VariantFields(daily[i]) = other.acc.daily[i]
    /\ (other.idx = idx /\ idx >= 1) =>
         /\ other.acc.cumulativeGdd = cumulativeGdd
         /\ other.acc.totalEtc = totalEtc
         /\ other.acc.totalPrecipitation = totalPrecipitation
         /\ other.acc.totalWaterDeficit = totalWaterDeficit
         /\ other.acc.peakPhaseReached = peakPhaseReached
    /\ (pc = "done" /\ other.pc = "done") =>
         /\ Len(other.acc.daily) = Len(daily)
         /\ other.summary.totalGdd = summary.totalGdd
         /\ other.summary.totalEtc = summary.totalEtc
         /\ other.summary.totalPrecipitation = summary.totalPrecipitation
         /\ other.summary.totalWaterDeficit = summary.totalWaterDeficit
         /\ other.summary.peakPhaseReached = summary.peakPhaseReached

\* Both have returned on a series of several days, one of them irrigated, and
\* they agree on everything but the days in deficit.
C29_Witness ==
  /\ pc = "done" /\ other.pc = "done"
  /\ Len(daily) >= 2
  /\ \E i \in 1..Len(daily) : RLt(R(0), daily[i].irrigationApplied)
  /\ RLt(R(0), summary.totalWaterDeficit)
  /\ other.summary.daysWithDeficit # summary.daysWithDeficit

====
